---- MODULE Spec2Model ----
(***************************************************************************)
(* A state-machine model of the FAPS knowledge assistant:                  *)
(*   - the LlamaIndex/Chroma RAG engine of src/src/rag_system.py with its  *)
(*     collectors (src/src/nas_connector.py, src/src/web_scraper.py,       *)
(*     src/src/auth.py) and the Gradio front end (src/app.py);             *)
(*   - the Streamlit application under src/app/ (NAS connector, web        *)
(*     scraper, query processing of src/app/src/ui/german_interface.py).   *)
(* Texts are abstracted to version numbers (0 is the empty string), paths  *)
(* and questions to short sequences of atoms so that the string functions  *)
(* of the code (replace, strip) are computed, never assumed.               *)
(***************************************************************************)
EXTENDS Integers, Sequences, FiniteSets, TLC

VARIABLES
    \* ---- src/src: RAGSystem, NASConnector (mock share), auth_manager ----
    query_engine,     \* RAGSystem.query_engine after construction: "chroma", "mock" or "none"
    index,            \* the entries of the vector store behind RAGSystem.index, in insertion order
    nasText,          \* the file share: the text extraction yields for each listed path now
    cacheFiles,       \* data_dir/nas_cache: cache key -> Some(cached text), or None
    tokens,           \* AuthenticationManager.tokens
    now,              \* the wall clock (time.time(), datetime.now()), in ticks
    indexRuns,        \* number of index_documents calls so far (bounds the model)
    lastIndexResult,  \* return value of the last index_documents call
    dirty,            \* TRUE iff a source text changed since the last index_documents call
    lastRun,          \* the last index_documents call: which files could not be read,
                      \* whether collection and inserts went through, where its entries start
    stored,           \* per service: the token of the latest store_token without expiry, if
                      \* no clear_token or other store_token for the service followed it
    authLast,         \* the last get_token or get_all_content call: its result
    \* ---- src/app.py, src/src/localization.py, src/demo_ui.py: answering ----
    translations,     \* Localization.translations: the languages with a loaded ui namespace
    current_language, \* Localization.current_language
    chat_history,     \* FAPSKnowledgeApp.chat_history (its entries are never read: their number)
    qLast,            \* the last answer operation: its arguments, result and collaborator calls
    \* ---- src/app: NASConnector on /mnt/nas, process_query of the Streamlit UI ----
    mount,            \* what /mnt/nas is now: see MountStates
    shareFiles,       \* the files under the mount
    probe,            \* TRUE iff .test_write_access exists on the mount
    conn,             \* the long-lived NASConnector: constructed?, and what construction saw
    nasLast,          \* the last NASConnector call on conn: its result
    pqLast,           \* the last process_query call: its result and LLM calls
    backends,         \* which of LanceDB, ChromaDB and Ollama answer
    rag_system,       \* the global RAGSystem instance exists
    db_connector,     \* st.session_state.db_connector
    startLast,        \* the last construction or readiness query and how it ended
    hashSeed,         \* the seed this interpreter drew for str hashes when it started
    idLog,            \* per source item, the ids it was given so far
    refresh,          \* per UI handler thread, where its index_documents call stands
    writeLog,         \* per document, the threads that wrote for it, in order
    auth_sessions,    \* st.session_state.auth_sessions
    sessionClock,     \* datetime.now() as AuthManager reads it, in ticks
    issued,           \* how many session tokens create_session_token has made
    ssoIssued,        \* the token of the most recent authenticate_sso (0: none)
    completedFor,     \* the token of the last complete_sso_authentication call that
                      \* named the current SSO session before its expiry (0: none)
    lapsed,           \* the auth types whose session has passed its expires_at
    sessionLast,      \* the last AuthManager call and how it ended
    fileCache,        \* data_dir/nas_cache as get_file_content of any path sees it
    fileLast,         \* the last get_file_content call: its path and what it returned
    ragGlobal,        \* the module global rag_system: 0 for None, else the instance
    created,          \* how many RAGSystem instances have been constructed
    getPc,            \* per handler thread, where it is in get_rag_system
    getLocal,         \* per handler thread, the instance it has constructed
    returnedSet,      \* the instances get_rag_system has returned so far
    launch,           \* "no" before the interface runs, then who started it
    sm,               \* the _find_sitemap call: the site, the call stack, its count
    \* ---- src/app/src/connectors/web_scraper.py: WebScraper instances ----
    clock,            \* time.time(), in ticks of half a second
    scrapers,         \* the WebScraper instances: domain, last_request_time, the call in progress
    requestLog,       \* the session.get calls made so far, in order: who, where, when, outcome
    crawl             \* the crawl_sitemap call: its locals and position

indexVars == <<query_engine, index, nasText, cacheFiles, tokens, now, indexRuns,
               lastIndexResult, dirty, lastRun, stored, authLast>>

queryVars == <<translations, current_language, chat_history, qLast>>

appVars == <<mount, shareFiles, probe, conn, nasLast, pqLast>>

webVars == <<clock, scrapers, requestLog, crawl>>

refreshVars == <<refresh, writeLog>>

sessionVars == <<auth_sessions, sessionClock, issued, ssoIssued, completedFor, lapsed,
                 sessionLast>>

cacheVars == <<fileCache, fileLast>>

singletonVars == <<ragGlobal, created, getPc, getLocal, returnedSet, launch>>

sitemapVars == <<sm>>

extraVars == <<cacheVars, singletonVars, sitemapVars>>

handlerVars == <<refreshVars, sessionVars, extraVars>>

startBase == <<backends, rag_system, db_connector, startLast, hashSeed, idLog>>

startVars == <<startBase, handlerVars>>

vars == <<indexVars, queryVars, appVars, webVars, startVars>>

-----------------------------------------------------------------------------
(* Bounds of the model *)
MaxVer == 2           \* text versions a source file goes through
MaxIndexRuns == 2     \* index_documents / refresh_index calls explored
NumNasFiles == 2      \* how many of the listed files the share holds
MaxFailAt == 2        \* the store may raise at the 1st .. MaxFailAt-th insert of a run
MaxHistory == 2       \* chat_history entries explored
MaxNow == 1           \* last tick of the clock token expiries are compared with
MaxTokens == 2        \* session tokens issued
MaxSessionClock == 3  \* last tick of the clock session expiries are compared with
RecursionLimit == 3   \* nested _parse_sitemap_xml calls the interpreter's stack holds
MaxRequests == 3      \* session.get calls followed
MaxClock == 6         \* last tick of the wall clock followed
MaxPages == 3         \* largest max_pages given to crawl_sitemap

-----------------------------------------------------------------------------
(* Values *)
\* An optional value (Python's None, a file that may not exist) is a sequence of
\* length 0 or 1.
None == <<>>
Some(x) == <<x>>
NoExpiry == [kind |-> "none", at |-> 0]

\* The three files NASConnector.list_files returns, as sequences of path atoms.
P1 == <<"/", "Forschung", "/", "Projekte", "/", "Forschungsprojekt", "_", "2024.pdf">>
P2 == <<"/", "Praesentationen", "/", "Lehrstuhl", "_", "Praesentation.pptx">>
P3 == <<"/", "Dokumentation", "/", "Anleitung", "_", "Laborgeraete.docx">>
NasListing == SubSeq(<<P1, P2, P3>>, 1, NumNasFiles)
NasPaths == {NasListing[i] : i \in 1..Len(NasListing)}

\* cache_key = file_path.replace("/", "_").replace("\\", "_")
CacheKey(p) == [i \in 1..Len(p) |-> IF p[i] \in {"/", "\\"} THEN "_" ELSE p[i]]
CacheKeys == {CacheKey(p) : p \in NasPaths}

\* The mock pages of scrape_wiki and scrape_intern_fau (url atoms); their content
\* is a non-empty literal of the code: text version 1.
WikiPages == <<<<"wiki", "lehrstuhl/uebersicht">>, <<"wiki", "labor/ausstattung">>,
               <<"wiki", "lehre/veranstaltungen">>>>
InternPages == <<<<"intern_fau", "faps/mitarbeiter">>, <<"intern_fau", "faps/projekte">>>>
PageContent(url) == 1

Services == {"wiki", "intern_fau", "other"}
FaultModes == {"ok", "open_fail", "write_fail"}

-----------------------------------------------------------------------------
(* src/src/auth.py *)

\* The expiry argument of store_token: None; an ISO time without offset (at: its
\* tick); an ISO time with a UTC offset, which datetime.now() cannot be compared
\* with; a string datetime.fromisoformat rejects.
Expiries == {NoExpiry, [kind |-> "time", at |-> 0], [kind |-> "aware", at |-> 0],
             [kind |-> "invalid", at |-> 0]}
TokenValues == {"t1", "t2", ""}

\* A get_token that tests the token itself for truth: an empty token reads as None
GetTokenTruthy(tok, s, t) ==
    IF tok[s] = None \/ tok[s][1].token = ""
    THEN [token |-> None, tokens |-> tok, raised |-> FALSE]
    ELSE IF tok[s][1].expiry.kind = "aware"
         THEN [token |-> None, tokens |-> tok, raised |-> TRUE]
    ELSE IF tok[s][1].expiry.kind = "time" /\ t > tok[s][1].expiry.at
         THEN [token |-> None, tokens |-> [tok EXCEPT ![s] = None], raised |-> FALSE]
         ELSE [token |-> Some(tok[s][1].token), tokens |-> tok, raised |-> FALSE]

\* AuthenticationManager.get_token: the token, and the token store afterwards
\* (an expired token is deleted by the read). Only ValueError is caught: the
\* comparison of datetime.now() with an offset-aware expiry raises TypeError.
GetToken(tok, s, t) ==
    IF tok[s] = None THEN [token |-> None, tokens |-> tok, raised |-> FALSE]
    ELSE IF tok[s][1].expiry.kind = "aware"
         THEN [token |-> None, tokens |-> tok, raised |-> TRUE]
    ELSE IF tok[s][1].expiry.kind = "time" /\ t > tok[s][1].expiry.at
         THEN [token |-> None, tokens |-> [tok EXCEPT ![s] = None], raised |-> FALSE]
         ELSE [token |-> Some(tok[s][1].token), tokens |-> tok, raised |-> FALSE]

\* validate_token: demo mode accepts every token of the two known services.
ValidateToken(s, token) == s \in {"wiki", "intern_fau"}

\* is_authenticated: `if not token` rejects None and the empty string.
IsAuthenticated(tok, s, t) ==
    LET g == GetToken(tok, s, t)
    IN  [ok |-> ~g.raised /\ (g.token \notin {None, Some("")}) /\ ValidateToken(s, g.token[1]),
         tokens |-> g.tokens, raised |-> g.raised]

\* get_session_headers: no header without a truthy token, else the User-Agent
\* and the token as Cookie or Authorization.
GetSessionHeaders(tok, s, t) ==
    LET g == GetToken(tok, s, t)
    IN  [headers |-> IF g.raised \/ g.token \in {None, Some("")} THEN {}
                     ELSE IF s \in {"wiki", "intern_fau"} THEN {"User-Agent", "Cookie"}
                     ELSE {"User-Agent"},
         tokens |-> g.tokens, raised |-> g.raised]

NoAuthOp == [op |-> "none", service |-> "wiki", token |-> None, raised |-> FALSE,
             pages |-> <<>>, valid |-> [s \in Services |-> FALSE], expected |-> None]

\* store_token
StoreToken(s, token, expiry) ==
    /\ tokens' = [tokens EXCEPT ![s] = Some([token |-> token, expiry |-> expiry])]
    /\ stored' = [stored EXCEPT ![s] = IF expiry = NoExpiry THEN Some(token) ELSE None]
    /\ UNCHANGED <<startVars, query_engine, index, nasText, cacheFiles, now, indexRuns,
                   lastIndexResult, dirty, lastRun, authLast, queryVars, appVars, webVars>>

\* clear_token
ClearToken(s) ==
    /\ tokens[s] # None
    /\ tokens' = [tokens EXCEPT ![s] = None]
    /\ stored' = [stored EXCEPT ![s] = None]
    /\ UNCHANGED <<startVars, query_engine, index, nasText, cacheFiles, now, indexRuns,
                   lastIndexResult, dirty, lastRun, authLast, queryVars, appVars, webVars>>

\* Whether a stored, unexpired, non-empty token exists for the service at time t.
HasValidToken(tok, s, t) ==
    /\ tok[s] # None
    /\ tok[s][1].token # ""
    /\ ~(tok[s][1].expiry.kind \in {"time", "aware"} /\ t > tok[s][1].expiry.at)

\* A call of get_token(s)
GetTokenCall(s) ==
    LET g == GetToken(tokens, s, now)
    IN  /\ tokens' = g.tokens
        /\ authLast' = [NoAuthOp EXCEPT !.op = "get_token", !.service = s,
                                        !.token = g.token, !.raised = g.raised,
                                        !.expected = stored[s]]
        /\ UNCHANGED <<startVars, query_engine, index, nasText, cacheFiles, now, indexRuns,
                       lastIndexResult, dirty, lastRun, stored, queryVars, appVars, webVars>>

\* The clock moves on by a tick.
AdvanceTime ==
    /\ now < MaxNow
    /\ now' = now + 1
    /\ UNCHANGED <<startVars, query_engine, index, nasText, cacheFiles, tokens, indexRuns,
                   lastIndexResult, dirty, lastRun, stored, authLast, queryVars, appVars, webVars>>

-----------------------------------------------------------------------------
(* src/src/nas_connector.py *)

\* get_file_content: cache hit returns the cached text whatever the share holds
\* now; a miss reads the share and writes the cache. fault = "open_fail": an open()
\* raises; "write_fail": the cache file is created but writing it raises.
GetFileContent(cache, text, p, fault) ==
    LET k == CacheKey(p)
    IN  IF fault = "open_fail" THEN [content |-> None, cache |-> cache]
        ELSE IF cache[k] # None THEN [content |-> cache[k], cache |-> cache]
        ELSE IF fault = "write_fail"
             THEN [content |-> None, cache |-> [cache EXCEPT ![k] = Some(0)]]
             ELSE [content |-> Some(text[p]), cache |-> [cache EXCEPT ![k] = Some(text[p])]]

-----------------------------------------------------------------------------
(* src/src/web_scraper.py *)

WebDocs(pages) == [i \in 1..Len(pages) |->
                     [source |-> "web", key |-> pages[i], text |-> PageContent(pages[i])]]

\* get_all_content: the wiki pages if authenticated for the wiki, then the
\* intern.fau.de pages if authenticated there; the reads may drop expired tokens.
GetAllContent(tok, t) ==
    LET w == IsAuthenticated(tok, "wiki", t)
        f == IsAuthenticated(w.tokens, "intern_fau", t)
    IN  IF w.raised THEN [pages |-> <<>>, tokens |-> w.tokens, raised |-> TRUE]
        ELSE IF f.raised THEN [pages |-> <<>>, tokens |-> f.tokens, raised |-> TRUE]
        ELSE [pages |-> (IF w.ok THEN WebDocs(WikiPages) ELSE <<>>)
                        \o (IF f.ok THEN WebDocs(InternPages) ELSE <<>>),
              tokens |-> f.tokens, raised |-> FALSE]

\* A call of web_scraper.get_all_content(); valid records which services had a
\* valid token when it was made.
GetAllContentCall ==
    LET r == GetAllContent(tokens, now)
    IN  /\ tokens' = r.tokens
        /\ authLast' = [NoAuthOp EXCEPT !.op = "get_all_content", !.raised = r.raised,
                                        !.pages = r.pages,
                                        !.valid = [s \in Services |->
                                                     HasValidToken(tokens, s, now)]]
        /\ UNCHANGED <<startVars, query_engine, index, nasText, cacheFiles, now, indexRuns,
                       lastIndexResult, dirty, lastRun, stored, queryVars, appVars, webVars>>

-----------------------------------------------------------------------------
(* src/src/rag_system.py: index_documents *)

\* A loop over nas_files that ends at the first file it cannot read
RECURSIVE CollectNasAbort(_, _, _, _, _)
CollectNasAbort(i, cache, text, faults, docs) ==
    IF i > Len(NasListing) THEN [docs |-> docs, cache |-> cache]
    ELSE LET p == NasListing[i]
             r == GetFileContent(cache, text, p, faults[p])
         IN  IF faults[p] # "ok" THEN [docs |-> docs, cache |-> r.cache]
             ELSE CollectNasAbort(i + 1, r.cache, text, faults,
                     IF r.content \notin {None, Some(0)}
                     THEN Append(docs, [source |-> "nas", key |-> p, text |-> r.content[1]])
                     ELSE docs)

\* A loop over nas_files that tests the content against None only
RECURSIVE CollectNasNotNone(_, _, _, _, _)
CollectNasNotNone(i, cache, text, faults, docs) ==
    IF i > Len(NasListing) THEN [docs |-> docs, cache |-> cache]
    ELSE LET p == NasListing[i]
             r == GetFileContent(cache, text, p, faults[p])
         IN  CollectNasNotNone(i + 1, r.cache, text, faults,
                 IF r.content # None
                 THEN Append(docs, [source |-> "nas", key |-> p, text |-> r.content[1]])
                 ELSE docs)

\* The loop over nas_files: a document per file whose content is truthy.
RECURSIVE CollectNas(_, _, _, _, _)
CollectNas(i, cache, text, faults, docs) ==
    IF i > Len(NasListing) THEN [docs |-> docs, cache |-> cache]
    ELSE LET p == NasListing[i]
             r == GetFileContent(cache, text, p, faults[p])
         IN  CollectNas(i + 1, r.cache, text, faults,
                 IF r.content \notin {None, Some(0)}
                 THEN Append(docs, [source |-> "nas", key |-> p, text |-> r.content[1]])
                 ELSE docs)

\* self.index.insert(doc): every Document object gets a fresh doc_id, so the store
\* gains a new entry; nothing with the same source is looked up or deleted.
IndexInsert(idx, doc) == Append(idx, doc)

\* An insert loop that stops one document short
InsertAllButLast(idx, docs, n) ==
    IF n = 0 THEN idx ELSE idx \o SubSeq(docs, 1, n - 1)

RECURSIVE InsertAll(_, _, _)
InsertAll(idx, docs, n) ==
    IF n = 0 THEN idx ELSE IndexInsert(InsertAll(idx, docs, n - 1), docs[n])

\* The documents one index_documents call collects, with the cache and token
\* store the collection leaves behind.
Collected(faults) ==
    LET nas == CollectNas(1, cacheFiles, nasText, faults, <<>>)
        web == GetAllContent(tokens, now)
    IN  [documents |-> nas.docs \o web.pages, cache |-> nas.cache, tokens |-> web.tokens,
         raised |-> web.raised]

NoRun == [ran |-> FALSE, unreadable |-> {}, clean |-> FALSE, expected |-> {}, start |-> 1]

\* index_documents (refresh_index calls it with force_refresh = True, which the
\* body never reads). faults: how get_file_content fares per file; failAt: the
\* insert at which the store or the embedding provider raises (0: none does).
IndexDocuments(faults, failAt) ==
    /\ indexRuns < MaxIndexRuns
    /\ indexRuns' = indexRuns + 1
    /\ lastRun' = [ran |-> TRUE,
                   unreadable |-> {p \in NasPaths :
                       GetFileContent(cacheFiles, nasText, p, faults[p]).content = None},
                   clean |-> query_engine # "none" /\ failAt = 0
                             /\ ~Collected(faults).raised,
                   expected |->
                       {p \in NasPaths :
                           GetFileContent(cacheFiles, nasText, p, faults[p]).content
                               \notin {None, Some(0)}}
                       \cup (IF HasValidToken(tokens, "wiki", now)
                             THEN {WikiPages[j] : j \in 1..Len(WikiPages)} ELSE {})
                       \cup (IF HasValidToken(tokens, "intern_fau", now)
                             THEN {InternPages[j] : j \in 1..Len(InternPages)} ELSE {}),
                   start |-> Len(index) + 1]
    /\ IF query_engine = "none"
       THEN /\ failAt = 0
            /\ lastIndexResult' = Some(FALSE)
            /\ UNCHANGED <<startVars, index, cacheFiles, tokens, dirty>>
       ELSE LET c == Collected(faults)
                n == Len(c.documents)
                raised == c.raised \/ failAt \in 1..n
            IN  /\ failAt <= n
                /\ c.raised => failAt = 0
                /\ cacheFiles' = c.cache
                /\ tokens' = c.tokens
                /\ dirty' = FALSE
                /\ index' = InsertAll(index, c.documents,
                                       IF c.raised THEN 0
                                       ELSE IF raised THEN failAt - 1 ELSE n)
                /\ lastIndexResult' = Some(n > 0 /\ ~raised)
    /\ UNCHANGED <<startVars, query_engine, nasText, now, stored, authLast, queryVars, appVars, webVars>>

\* The file share is edited: the text of one file moves to its next version.
ChangeSource(p) ==
    /\ nasText[p] < MaxVer
    /\ nasText' = [nasText EXCEPT ![p] = @ + 1]
    /\ dirty' = TRUE
    /\ UNCHANGED <<startVars, query_engine, index, cacheFiles, tokens, now, indexRuns, lastIndexResult,
                   lastRun, stored, authLast, queryVars, appVars, webVars>>

-----------------------------------------------------------------------------
(* Questions and messages *)

\* Questions are sequences of characters; Blank are the whitespace characters.
Blank == {" ", "\t"}
Questions == {<<>>, <<" ">>, <<"\t", " ">>, <<"F">>, <<" ", "F", " ">>}
Languages == {"de", "en"}

\* str.strip(): leading and trailing whitespace removed.
RECURSIVE LStrip(_)
LStrip(q) == IF q # <<>> /\ Head(q) \in Blank THEN LStrip(Tail(q)) ELSE q
RECURSIVE RStrip(_)
RStrip(q) == IF q # <<>> /\ q[Len(q)] \in Blank THEN RStrip(SubSeq(q, 1, Len(q) - 1)) ELSE q
Strip(q) == RStrip(LStrip(q))

\* A message is its text and the language the text is written in.
Msg(text, lang) == [text |-> text, lang |-> lang]

\* Localization.get_text(key): the text of the current language, else of the
\* default language "de", else the key itself.
GetText(key) ==
    IF current_language \in translations THEN Msg(key, current_language)
    ELSE IF "de" \in translations THEN Msg(key, "de")
    ELSE Msg(key, "key")

\* Localization.set_language (through FAPSKnowledgeApp.change_language)
ChangeLanguage(l) ==
    /\ l \in translations
    /\ current_language' = l
    /\ UNCHANGED <<startVars, indexVars, translations, chat_history, qLast, appVars, webVars>>

NoCalls == [embed |-> 0, vs |-> 0, llm |-> 0]

-----------------------------------------------------------------------------
(* src/src/rag_system.py: query *)

SimilarityTopK == 5   \* as_query_engine(similarity_top_k=5)
DefaultTopK == 2      \* as_query_engine() of the in-memory index: the library default

TopK == IF query_engine = "mock" THEN DefaultTopK ELSE SimilarityTopK
Min(a, b) == IF a < b THEN a ELSE b

\* The retriever's choice: the positions of min(k, n) entries of the store.
Retrievals(idx, k) ==
    {sel \in SUBSET (1..Len(idx)) : Cardinality(sel) = Min(k, Len(idx))}

RECURSIVE Pick(_, _, _)
Pick(idx, sel, i) ==
    IF i > Len(idx) THEN <<>>
    ELSE (IF i \in sel THEN <<idx[i]>> ELSE <<>>) \o Pick(idx, sel, i + 1)

EngineOutcomes == {"ok", "embed_fail", "store_fail", "llm_fail"}

\* query_engine.query(enhanced_query): embed the query, retrieve the nearest
\* entries, and have the LLM synthesize an answer from them. With no entry
\* retrieved the synthesizer answers "Empty Response" without calling the LLM.
\* A failing collaborator raises.
EngineQuery(idx, sel, language, outcome) ==
    LET nodes == Pick(idx, sel, 1)
    IN  IF outcome = "embed_fail"
        THEN [raised |-> TRUE, text |-> Msg("", "en"), nodes |-> <<>>,
              calls |-> [embed |-> 1, vs |-> 0, llm |-> 0]]
        ELSE IF outcome = "store_fail"
        THEN [raised |-> TRUE, text |-> Msg("", "en"), nodes |-> <<>>,
              calls |-> [embed |-> 1, vs |-> 1, llm |-> 0]]
        ELSE IF nodes = <<>>
        THEN [raised |-> FALSE, text |-> Msg("Empty Response", "en"), nodes |-> nodes,
              calls |-> [embed |-> 1, vs |-> 1, llm |-> 0]]
        ELSE IF outcome = "llm_fail"
        THEN [raised |-> TRUE, text |-> Msg("", "en"), nodes |-> <<>>,
              calls |-> [embed |-> 1, vs |-> 1, llm |-> 1]]
        ELSE [raised |-> FALSE, text |-> Msg("generated", language), nodes |-> nodes,
              calls |-> [embed |-> 1, vs |-> 1, llm |-> 1]]

\* RAGSystem.query without its try/except: what the engine raises reaches the caller
QueryResultUncaught(question, language, sel, outcome) ==
    IF query_engine = "none"
    THEN [response |-> Msg("System not initialized", "en"), sources |-> <<>>,
          error |-> TRUE, calls |-> NoCalls, nodes |-> <<>>,
          caught |-> FALSE, raised |-> FALSE]
    ELSE LET r == EngineQuery(index, sel, language, outcome)
         IN  [response |-> r.text, sources |-> r.nodes, error |-> FALSE,
              calls |-> r.calls, nodes |-> r.nodes,
              caught |-> FALSE, raised |-> r.raised]

\* RAGSystem.query: the result dictionary (response, sources, whether it has an
\* "error" key), the collaborator calls made, and whether the except clause ran.
QueryResult(question, language, sel, outcome) ==
    IF query_engine = "none"
    THEN [response |-> Msg("System not initialized", "en"), sources |-> <<>>,
          error |-> TRUE, calls |-> NoCalls, nodes |-> <<>>,
          caught |-> FALSE, raised |-> FALSE]
    ELSE LET r == EngineQuery(index, sel, language, outcome)
         IN  IF r.raised
             THEN [response |-> IF language = "de"
                                THEN Msg("Es ist ein Fehler aufgetreten.", "de")
                                ELSE Msg("An error occurred.", "en"),
                   sources |-> <<>>, error |-> TRUE, calls |-> r.calls, nodes |-> <<>>,
                   caught |-> TRUE, raised |-> FALSE]
             ELSE [response |-> r.text, sources |-> r.nodes, error |-> FALSE,
                   calls |-> r.calls, nodes |-> r.nodes,
                   caught |-> FALSE, raised |-> FALSE]

\* A direct call of RAGSystem.query(question, language).
RagQuery(question, language, sel, outcome) ==
    /\ qLast' = [op |-> "query", question |-> question, language |-> language]
                @@ QueryResult(question, language, sel, outcome)
    /\ UNCHANGED <<startVars, indexVars, translations, current_language, chat_history, appVars, webVars>>

-----------------------------------------------------------------------------
(* src/app.py: search_knowledge; src/demo_ui.py: demo_search *)

\* FAPSKnowledgeApp.search_knowledge: a blank question is answered on the spot;
\* any other goes to RAGSystem.query and is appended to the chat history.
SearchKnowledge(question, language, sel, outcome) ==
    /\ chat_history < MaxHistory
    /\ IF Strip(question) = <<>>
       THEN /\ qLast' = [op |-> "search_knowledge", question |-> question,
                         language |-> language, raised |-> FALSE,
                         response |-> IF language = "de" THEN GetText("no_results")
                                      ELSE Msg("Please enter a question.", "en"),
                         sources |-> <<>>, error |-> FALSE, calls |-> NoCalls,
                         nodes |-> <<>>, caught |-> FALSE]
            /\ UNCHANGED chat_history
       ELSE /\ qLast' = [op |-> "search_knowledge", question |-> question,
                         language |-> language, raised |-> FALSE]
                        @@ QueryResult(question, language, sel, outcome)
            /\ chat_history' = chat_history + 1
    /\ UNCHANGED <<startVars, indexVars, translations, current_language, appVars, webVars>>

\* demo_search of the demo interface: canned answers, no collaborator.
DemoSearch(question, language) ==
    /\ qLast' = [op |-> "demo_search", question |-> question, language |-> language,
                 raised |-> FALSE,
                 response |-> IF Strip(question) = <<>>
                              THEN (IF language = "de"
                                    THEN Msg("Bitte stellen Sie eine Frage.", "de")
                                    ELSE Msg("Please ask a question.", "en"))
                              ELSE Msg("demo", language),
                 sources |-> <<>>, error |-> FALSE, calls |-> NoCalls, nodes |-> <<>>,
                 caught |-> FALSE]
    /\ UNCHANGED <<startVars, indexVars, translations, current_language, chat_history, appVars, webVars>>

-----------------------------------------------------------------------------
(* src/app/src/connectors/nas_connector.py *)

\* /mnt/nas is absent, is a file, cannot be stat'ed (a parent denies search), is a
\* directory that cannot be listed, a read-only directory or a writable one.
MountStates == {"missing", "file", "noaccess", "unreadable", "readonly", "writable"}

\* The files a share may hold, in directory order: the name as atoms, the last
\* being the suffix, and the text of a plain-text file as characters.
ShareOrder == <<[filename |-> <<"F", "a", ".txt">>, text |-> <<"b", "c">>],
                [filename |-> <<"b", ".PDF">>, text |-> <<>>],
                [filename |-> <<"a", ".exe">>, text |-> <<>>],
                [filename |-> <<"a", "1", ".pdf">>, text |-> <<>>],
                [filename |-> <<"a", "2", ".pdf">>, text |-> <<>>],
                [filename |-> <<"a", "3", ".pdf">>, text |-> <<>>],
                [filename |-> <<"a", "4", ".pdf">>, text |-> <<>>],
                [filename |-> <<"a", "5", ".pdf">>, text |-> <<>>]>>
ShareUniverse == {ShareOrder[i] : i \in 1..Len(ShareOrder)}
SearchQueries == {<<>>, <<"a">>, <<"B">>, <<"c">>, <<"z">>}

\* str.lower() on the atoms in use
LowerAtom(a) == CASE a = "F" -> "f" [] a = "B" -> "b" [] a = ".PDF" -> ".pdf" [] OTHER -> a
Lower(q) == [i \in 1..Len(q) |-> LowerAtom(q[i])]

\* needle in hay
Contains(hay, needle) ==
    \E i \in 1..(Len(hay) + 1) :
        /\ i + Len(needle) - 1 <= Len(hay)
        /\ SubSeq(hay, i, i + Len(needle) - 1) = needle

Suffix(name) == LowerAtom(name[Len(name)])
SupportedExtensions == {".pdf", ".doc", ".docx", ".txt", ".xlsx", ".xls", ".ppt", ".pptx",
                        ".md", ".rtf", ".odt", ".ods", ".odp", ".csv"}
TextExtensions == {".txt", ".md", ".csv"}

\* _verify_nas_access: its return value and whether the probe file is on the
\* mount afterwards. unlinkOK: whether the share lets the probe file be removed.
VerifyNasAccess(m, pr, unlinkOK) ==
    IF m \in {"missing", "file", "noaccess", "unreadable"} THEN [result |-> FALSE, probe |-> pr]
    ELSE IF m = "readonly" THEN [result |-> TRUE, probe |-> pr]
    ELSE IF unlinkOK THEN [result |-> FALSE, probe |-> FALSE]
    ELSE [result |-> TRUE, probe |-> TRUE]

\* is_nas_accessible: the mount path exists and is a directory (a failing stat
\* raises or answers False; either way the method returns False).
IsNasAccessible(m) == m \in {"unreadable", "readonly", "writable"}

\* hashlib.md5(str(relative_path).encode()).hexdigest(): a function of the
\* path alone.
Md5(relative_path) == <<"md5", relative_path>>

\* file_id = f"nas_{md5 of the relative path}"
FileId(relative_path) == <<"nas_", Md5(relative_path)>>

\* _get_file_metadata, the fields the model reads
FileMetadata(f) == [id |-> FileId(f.filename), filename |-> f.filename,
                    extension |-> Suffix(f.filename), content |-> None]

RECURSIVE Listing(_, _, _)
Listing(m, files, i) ==
    IF i > Len(ShareOrder) THEN <<>>
    ELSE (IF ShareOrder[i] \in files /\ Suffix(ShareOrder[i].filename) \in SupportedExtensions
          THEN <<FileMetadata(ShareOrder[i])>> ELSE <<>>) \o Listing(m, files, i + 1)

\* list_files(directory = "", recursive, max_files): nothing unless
\* is_nas_accessible(); a directory that cannot be listed globs to nothing.
ListFiles(m, files, max_files) ==
    IF ~IsNasAccessible(m) \/ m = "unreadable" THEN <<>>
    ELSE LET all == Listing(m, files, 1)
         IN  SubSeq(all, 1, Min(max_files, Len(all)))

TextOf(filename) == (CHOOSE f \in ShareUniverse : f.filename = filename).text

\* _extract_content_preview: the text of a text file, a placeholder naming the
\* file for PDF, Word and Excel files, nothing for the rest.
ContentPreview(info) ==
    IF info.extension \in TextExtensions THEN Some(TextOf(info.filename))
    ELSE IF info.extension \in {".pdf", ".doc", ".docx", ".xls", ".xlsx"}
    THEN Some(<<"content from">> \o info.filename \o <<"(content extraction not implemented)">>)
    ELSE None

\* The first loop of search: files whose name contains the query.
RECURSIVE ByName(_, _, _, _, _)
ByName(all, q, max_results, i, results) ==
    IF i > Len(all) \/ Len(results) >= max_results THEN results
    ELSE ByName(all, q, max_results, i + 1,
            IF Contains(Lower(all[i].filename), q)
            THEN Append(results,
                    IF ContentPreview(all[i]) \notin {None, Some(<<>>)}
                    THEN [all[i] EXCEPT !.content = ContentPreview(all[i])]
                    ELSE all[i])
            ELSE results)

\* The second loop of search: text files, not yet found, whose content contains it.
RECURSIVE ByContent(_, _, _, _, _)
ByContent(all, q, max_results, i, results) ==
    IF i > Len(all) \/ Len(results) >= max_results THEN results
    ELSE ByContent(all, q, max_results, i + 1,
            IF /\ \A j \in 1..Len(results) : results[j].filename # all[i].filename
               /\ all[i].extension \in TextExtensions
               /\ TextOf(all[i].filename) # <<>>
               /\ Contains(Lower(TextOf(all[i].filename)), q)
            THEN Append(results, [all[i] EXCEPT !.content = Some(TextOf(all[i].filename))])
            ELSE results)

\* search(query, max_results)
NasSearch(m, files, query, max_results) ==
    IF ~IsNasAccessible(m) THEN <<>>
    ELSE LET all == ListFiles(m, files, 5000)
             named == ByName(all, Lower(query), max_results, 1, <<>>)
         IN  IF Len(named) < max_results
             THEN ByContent(all, Lower(query), max_results, 1, named)
             ELSE named

\* conn before construction. stayedWritable records that the mount was writable at
\* construction and has been ever since.
NoConnector == [constructed |-> FALSE, mountAtInit |-> "missing", verified |-> FALSE,
                stayedWritable |-> FALSE, raised |-> FALSE]

NoNasOp == [op |-> "none", mountAtCall |-> "missing", files |-> <<>>, flag |-> FALSE,
            raised |-> FALSE]

\* NASConnector(): __init__ runs _verify_nas_access and drops what it returns.
NasConstruct(unlinkOK) ==
    LET v == VerifyNasAccess(mount, probe, unlinkOK)
    IN  /\ probe' = v.probe
        /\ conn' = [constructed |-> TRUE, mountAtInit |-> mount, verified |-> v.result,
                    stayedWritable |-> (mount = "writable"), raised |-> FALSE]
        /\ nasLast' = NoNasOp
        /\ UNCHANGED <<startVars, indexVars, queryVars, webVars, mount, shareFiles, pqLast>>

\* conn.list_files(max_files = max_files)
NasListFiles(max_files) ==
    /\ conn.constructed
    /\ nasLast' = [op |-> "list_files", mountAtCall |-> mount,
                   files |-> ListFiles(mount, shareFiles, max_files), flag |-> FALSE,
                   raised |-> FALSE]
    /\ UNCHANGED <<startVars, indexVars, queryVars, webVars, mount, shareFiles, probe, conn, pqLast>>

\* conn.search(query, max_results)
NasSearchCall(query, max_results) ==
    /\ conn.constructed
    /\ nasLast' = [op |-> "search", mountAtCall |-> mount,
                   files |-> NasSearch(mount, shareFiles, query, max_results),
                   flag |-> FALSE, raised |-> FALSE]
    /\ UNCHANGED <<startVars, indexVars, queryVars, webVars, mount, shareFiles, probe, conn, pqLast>>

\* conn.is_nas_accessible()
NasIsAccessible ==
    /\ conn.constructed
    /\ nasLast' = [op |-> "is_nas_accessible", mountAtCall |-> mount, files |-> <<>>,
                   flag |-> IsNasAccessible(mount), raised |-> FALSE]
    /\ UNCHANGED <<startVars, indexVars, queryVars, webVars, mount, shareFiles, probe, conn, pqLast>>

\* The share is mounted, unmounted or remounted with other permissions.
MountChange(m) ==
    /\ m # mount
    /\ mount' = m
    /\ probe' = (probe /\ m \notin {"missing", "file"})
    /\ conn' = [conn EXCEPT !.stayedWritable = FALSE]
    /\ UNCHANGED <<startVars, indexVars, queryVars, webVars, shareFiles, nasLast, pqLast>>

-----------------------------------------------------------------------------
(* src/app/src/connectors/web_scraper.py: construction and search *)

\* urlparse(base_url).netloc: empty when the URL has no scheme
Netloc(base) == IF base.scheme = "" THEN "" ELSE base.host

\* The base URLs search_wiki and search_web construct their WebScraper with.
UiWikiBase == [scheme |-> "", host |-> "wiki.faps.uni-erlangen.de"]
UiWebBase == [scheme |-> "", host |-> "www.intern.fau.de"]

\* WebScraper(base).search(query, max_results): the wiki and IDM searches return
\* nothing; the others scrape https://<domain> pages, and a request to "https://"
\* with an empty domain raises before anything is sent. relevant: the pages
\* fetched and found relevant when there is a domain to fetch from.
ScraperSearch(base, relevant, max_results) ==
    IF Netloc(base) \in {"wiki.faps.uni-erlangen.de", "www.idm.fau.de"} THEN <<>>
    ELSE IF Netloc(base) = "" THEN <<>>
    ELSE SubSeq(relevant, 1, Min(max_results, Len(relevant)))

-----------------------------------------------------------------------------
(* src/app/src/ui/german_interface.py *)

LlmOutcomes == {"ok", "no_response_field", "bad_status", "exception"}

\* st.slider("Max. Suchergebnisse", 5, 50, 10): some of its values
SliderValues == {5, 10, 18}
ContextSize == 5      \* sources[:5]

\* generate_fallback_response
FallbackResponse == Msg("Entschuldigung, ich konnte keine spezifischen Informationen finden", "de")

\* generate_rag_response: the answer of the model on status 200, else the fallback
GenerateRagResponse(sources, llm) ==
    IF llm = "ok" THEN Msg("generated", "de")
    ELSE IF llm = "no_response_field" THEN Msg("Keine Antwort vom LLM erhalten.", "de")
    ELSE FallbackResponse

\* process_query(query) under the search settings of the session, the wiki and
\* the web source enabled: each source is searched with max_results // 3; a
\* NASConnector and two WebScrapers are constructed for the call.
ProcessQuery(query, include_nas, max_results, llm, unlinkOK, relevant) ==
    LET v == VerifyNasAccess(mount, probe, unlinkOK)
        k == max_results \div 3
        nas == IF include_nas THEN NasSearch(mount, shareFiles, query, k) ELSE <<>>
        wiki == ScraperSearch(UiWikiBase, relevant, k)
        web == ScraperSearch(UiWebBase, relevant, k)
        sources == nas \o wiki \o web
    IN  /\ probe' = IF include_nas THEN v.probe ELSE probe
        /\ pqLast' = [op |-> "process_query", query |-> query,
                      response |-> IF sources # <<>> THEN GenerateRagResponse(sources, llm)
                                   ELSE FallbackResponse,
                      sources |-> sources,
                      context |-> SubSeq(sources, 1, Min(ContextSize, Len(sources))),
                      llm |-> IF sources # <<>> THEN llm ELSE "not_called",
                      llmCalls |-> IF sources # <<>> THEN 1 ELSE 0,
                      raised |-> FALSE]
        /\ UNCHANGED <<startVars, indexVars, queryVars, webVars, mount, shareFiles, conn, nasLast>>

-----------------------------------------------------------------------------
(* src/app/src/connectors/web_scraper.py: _rate_limit and _make_request *)

RequestDelay == 2     \* self.request_delay = 1.0 second, in ticks

\* The WebScraper instances followed: two, as search_wiki and search_web construct.
ScraperIds == {1, 2}
HttpsWebBase == [scheme |-> "https", host |-> "www.intern.fau.de"]
BaseUrls == {HttpsWebBase, UiWebBase}
RequestOutcomes == {"ok", "http_error", "timeout"}

NoScraper == [constructed |-> FALSE, domain |-> "", last_request_time |-> 0,
              pc |-> "idle", wake |-> 0]

\* WebScraper(base_url)
ScraperConstruct(i, base) ==
    /\ ~scrapers[i].constructed
    /\ scrapers' = [scrapers EXCEPT ![i] = [constructed |-> TRUE, domain |-> Netloc(base),
                                            last_request_time |-> 0, pc |-> "idle",
                                            wake |-> 0]]
    /\ UNCHANGED <<startVars, indexVars, queryVars, appVars, clock, requestLog, crawl>>

\* A _rate_limit that never sleeps
SleepTimeNone(current_time, last_request_time) == 0

\* What _rate_limit passes to time.sleep; 0 when it does not sleep.
SleepTime(current_time, last_request_time) ==
    IF current_time - last_request_time < RequestDelay
    THEN RequestDelay - (current_time - last_request_time)
    ELSE 0

\* _make_request(url) is called on scraper i, which runs one call at a time;
\* _rate_limit reads the clock and goes to sleep if the last stamp is recent.
RateLimitEnter(i) ==
    /\ scrapers[i].constructed
    /\ scrapers[i].pc = "idle"
    /\ Len(requestLog) < MaxRequests
    /\ LET d == SleepTime(clock, scrapers[i].last_request_time)
       IN  scrapers' = [scrapers EXCEPT ![i].pc = IF d > 0 THEN "sleeping" ELSE "awake",
                                        ![i].wake = clock + d]
    /\ UNCHANGED <<startVars, indexVars, queryVars, appVars, clock, requestLog, crawl>>

\* time.sleep returns, no earlier than asked.
RateLimitWake(i) ==
    /\ scrapers[i].pc = "sleeping"
    /\ clock >= scrapers[i].wake
    /\ scrapers' = [scrapers EXCEPT ![i].pc = "awake"]
    /\ UNCHANGED <<startVars, indexVars, queryVars, appVars, clock, requestLog, crawl>>

\* self.last_request_time = time.time(); self.session.get(url, timeout=10).
\* A URL without a host ("https://" of a scraper with an empty domain) raises
\* before anything is sent and _make_request returns None at once.
SendRequest(i, outcome) ==
    /\ scrapers[i].pc = "awake"
    /\ outcome \in (IF scrapers[i].domain = "" THEN {"invalid_url"} ELSE RequestOutcomes)
    /\ requestLog' = Append(requestLog, [scraper |-> i, domain |-> scrapers[i].domain,
                                         at |-> clock, outcome |-> outcome])
    /\ scrapers' = [scrapers EXCEPT ![i].last_request_time = clock,
                                    ![i].pc = IF outcome = "invalid_url" THEN "idle"
                                              ELSE "in_flight"]
    /\ UNCHANGED <<startVars, indexVars, queryVars, appVars, clock, crawl>>

\* The response, the HTTP error or the timeout arrives; _make_request returns.
RequestReturn(i) ==
    /\ scrapers[i].pc = "in_flight"
    /\ scrapers' = [scrapers EXCEPT ![i].pc = "idle"]
    /\ UNCHANGED <<startVars, indexVars, queryVars, appVars, clock, requestLog, crawl>>

\* Half a second passes.
Tick ==
    /\ clock < MaxClock
    /\ clock' = clock + 1
    /\ UNCHANGED <<startVars, indexVars, queryVars, appVars, scrapers, requestLog, crawl>>

-----------------------------------------------------------------------------
(* src/app/src/connectors/web_scraper.py: crawl_sitemap *)

LinksPerPage == 5     \* page_data.get('links', [])[:5]
CrawlUrls == {"u0", "u1", "u2"}
RootUrl == "u0"       \* f"https://{self.domain}"

\* What scrape_page may return: None, or a page whose links are a list without
\* repetition (list(set(links))), in any order, the page itself included.
LinkLists == {l \in UNION {[1..n -> CrawlUrls] : n \in 0..Cardinality(CrawlUrls)} :
                \A a, b \in 1..Len(l) : a # b => l[a] # l[b]}
PageResults == {None} \cup {Some(l) : l \in LinkLists}

\* What _find_sitemap may return: any list of URLs, repetitions included.
SitemapLists == {<<>>, <<"u1">>, <<"u1", "u1", "u2">>, <<"u2", "u0", "u1", "u2">>}

\* fetched: the URLs passed to scrape_page so far, in order.
NoCrawl == [pc |-> "idle", max_pages |-> 0, urls_to_visit |-> <<>>, visited_urls |-> {},
            crawled_pages |-> <<>>, fetched |-> <<>>, skipped |-> FALSE, failed |-> FALSE]

\* A visited test that never finds the URL
NeverVisited(url, visited_urls) == FALSE

\* if url in visited_urls: continue
AlreadyVisited(url, visited_urls) == url \in visited_urls

\* A pop that reads the head and leaves it in the list
PopKeep(urls) == urls

\* urls_to_visit after urls_to_visit.pop(0)
Pop(urls) == Tail(urls)

\* for link in new_links: if link not in visited_urls and
\* len(urls_to_visit) < max_pages: urls_to_visit.append(link)
RECURSIVE AddLinks(_, _, _, _)
AddLinks(urls, links, visited, max_pages) ==
    IF links = <<>> THEN urls
    ELSE AddLinks(IF Head(links) \notin visited /\ Len(urls) < max_pages
                  THEN Append(urls, Head(links)) ELSE urls,
                  Tail(links), visited, max_pages)

\* The condition of the while loop
CrawlContinues(c) == c.urls_to_visit # <<>> /\ Len(c.crawled_pages) < c.max_pages

\* crawl_sitemap(max_pages) up to the loop; sitemap: what _find_sitemap returned.
CrawlStart(max_pages, sitemap) ==
    /\ crawl.pc \in {"idle", "done"}
    /\ crawl' = [pc |-> "running", max_pages |-> max_pages,
                 urls_to_visit |-> <<RootUrl>> \o SubSeq(sitemap, 1, Min(max_pages, Len(sitemap))),
                 visited_urls |-> {}, crawled_pages |-> <<>>, fetched |-> <<>>,
                 skipped |-> FALSE, failed |-> FALSE]
    /\ UNCHANGED <<startVars, indexVars, queryVars, appVars, clock, scrapers, requestLog>>

\* One iteration of the loop; page: what scrape_page(url) returns when it is
\* called. skipped and failed record that a visited URL was met again and that a
\* fetch failed.
CrawlStep(page) ==
    /\ crawl.pc = "running"
    /\ CrawlContinues(crawl)
    /\ LET url == Head(crawl.urls_to_visit)
           rest == Pop(crawl.urls_to_visit)
           visited == crawl.visited_urls \cup {url}
           fetched == Append(crawl.fetched, url)
       IN  IF AlreadyVisited(url, crawl.visited_urls)
           THEN /\ page = None
                /\ crawl' = [crawl EXCEPT !.urls_to_visit = rest, !.skipped = TRUE]
           ELSE IF page = None
           THEN crawl' = [crawl EXCEPT !.urls_to_visit = rest, !.visited_urls = visited,
                                       !.fetched = fetched, !.failed = TRUE]
           ELSE LET links == page[1]
                    new_links == SubSeq(links, 1, Min(LinksPerPage, Len(links)))
                IN  crawl' = [crawl EXCEPT
                                !.urls_to_visit = AddLinks(rest, new_links, visited,
                                                           crawl.max_pages),
                                !.visited_urls = visited,
                                !.fetched = fetched,
                                !.crawled_pages = Append(crawl.crawled_pages, url)]
    /\ UNCHANGED <<startVars, indexVars, queryVars, appVars, clock, scrapers, requestLog>>

\* The loop condition is false: crawl_sitemap returns crawled_pages.
CrawlFinish ==
    /\ crawl.pc = "running"
    /\ ~CrawlContinues(crawl)
    /\ crawl' = [crawl EXCEPT !.pc = "done"]
    /\ UNCHANGED <<startVars, indexVars, queryVars, appVars, clock, scrapers, requestLog>>

\* The thread inside crawl_sitemap takes its next step.
CrawlLoop == (\E page \in PageResults : CrawlStep(page)) \/ CrawlFinish

-----------------------------------------------------------------------------
(* Start-up: src/src/rag_system.py, src/app/main.py, src/app/src/database/lance_connector.py *)

\* The two seed documents of _setup_mock_vector_store.
MockSeeds == <<[source |-> "mock", key |-> <<"mock", 1>>, text |-> 1],
               [source |-> "mock", key |-> <<"mock", 2>>, text |-> 1]>>

Backends == [lancedb : BOOLEAN, chroma : BOOLEAN, ollama : BOOLEAN]

NoDbConnector == [constructed |-> FALSE, db |-> FALSE]

NoStartOp == [op |-> "none", raised |-> FALSE, ready |-> FALSE,
              backends |-> [lancedb |-> TRUE, chroma |-> TRUE, ollama |-> TRUE]]

\* _setup_vector_store: the Chroma client and an index over its collection; if
\* that raises, _setup_mock_vector_store embeds the two seed documents, and if
\* that raises too, index and query_engine are None.
SetupVectorStore(b) ==
    IF b.chroma THEN "chroma" ELSE IF b.ollama THEN "mock" ELSE "none"

\* get_rag_system / RAGSystem.__init__: _setup_llm builds the Ollama clients
\* without a request, then _setup_vector_store; every failure is caught.
RagConstruct ==
    /\ ~rag_system
    /\ rag_system' = TRUE
    /\ query_engine' = SetupVectorStore(backends)
    /\ index' = IF SetupVectorStore(backends) = "mock" THEN MockSeeds ELSE <<>>
    /\ startLast' = [op |-> "RAGSystem", raised |-> FALSE,
                     ready |-> SetupVectorStore(backends) # "none", backends |-> backends]
    /\ UNCHANGED <<nasText, cacheFiles, tokens, now, indexRuns, lastIndexResult, dirty,
                   lastRun, stored, authLast, queryVars, appVars, webVars,
                   backends, db_connector, hashSeed, idLog, handlerVars>>

\* get_system_status: bool() of the fields, test_connection() of the NAS
\* connector (always True), and the collection count inside a try.
GetSystemStatus ==
    /\ rag_system
    /\ startLast' = [op |-> "get_system_status", raised |-> FALSE,
                     ready |-> query_engine # "none", backends |-> backends]
    /\ UNCHANGED <<indexVars, queryVars, appVars, webVars,
                   backends, rag_system, db_connector, hashSeed, idLog, handlerVars>>

\* main(): LanceDBConnector() when the session has none. _initialize_db logs a
\* failure of lancedb.connect or of the table creation and raises it again.
LanceConstruct ==
    /\ ~db_connector.constructed
    /\ IF backends.lancedb
       THEN /\ db_connector' = [constructed |-> TRUE, db |-> TRUE]
            /\ startLast' = [op |-> "LanceDBConnector", raised |-> FALSE, ready |-> TRUE, backends |-> backends]
       ELSE /\ db_connector' = db_connector
            /\ startLast' = [op |-> "LanceDBConnector", raised |-> TRUE, ready |-> FALSE, backends |-> backends]
    /\ UNCHANGED <<indexVars, queryVars, appVars, webVars, backends, rag_system,
                   hashSeed, idLog, handlerVars>>

\* LanceDBConnector.test_connection: False without a connection or when listing
\* the tables raises.
LanceTestConnection ==
    /\ db_connector.constructed
    /\ startLast' = [op |-> "test_connection", raised |-> FALSE,
                     ready |-> db_connector.db /\ backends.lancedb, backends |-> backends]
    /\ UNCHANGED <<indexVars, queryVars, appVars, webVars,
                   backends, rag_system, db_connector, hashSeed, idLog, handlerVars>>

\* A backend goes down or comes back.
BackendChange(b) ==
    /\ b # backends
    /\ backends' = b
    /\ UNCHANGED <<indexVars, queryVars, appVars, webVars,
                   rag_system, db_connector, startLast, hashSeed, idLog, handlerVars>>

-----------------------------------------------------------------------------
(* Document ids: _get_file_metadata and scrape_page of src/app/src/connectors *)

\* The seeds an interpreter may draw for str.__hash__ when it starts
\* (PYTHONHASHSEED unset).
HashSeeds == {0, 1}

\* hash(url) of a str: a keyed hash of the characters under the process's seed.
StrHash(url, seed) == <<"hash", seed, url>>

\* 'id': f"web_{hash(url)}"
PageId(url, seed) == <<"web_", StrHash(url, seed)>>

\* A source item: a file of the share by its relative path, a page by its URL.
FileItem(f) == <<"nas", f.filename>>
UrlItem(url) == <<"web", <<url>>>>
SourceItems == {FileItem(f) : f \in ShareUniverse} \cup {UrlItem(u) : u \in CrawlUrls}

\* _get_file_metadata(file_path) returns the metadata of a file of the share.
CollectFile(f) ==
    /\ idLog' = [idLog EXCEPT ![FileItem(f)] = @ \cup {FileMetadata(f).id}]
    /\ UNCHANGED <<indexVars, queryVars, appVars, webVars,
                   backends, rag_system, db_connector, startLast, hashSeed, handlerVars>>

\* scrape_page(url) returns a page.
ScrapePage(url) ==
    /\ idLog' = [idLog EXCEPT ![UrlItem(url)] = @ \cup {PageId(url, hashSeed)}]
    /\ UNCHANGED <<indexVars, queryVars, appVars, webVars,
                   backends, rag_system, db_connector, startLast, hashSeed, handlerVars>>

\* The application is started anew: a new interpreter draws its seed.
ProcessStart(seed) ==
    /\ seed # hashSeed
    /\ hashSeed' = seed
    /\ UNCHANGED <<indexVars, queryVars, appVars, webVars,
                   backends, rag_system, db_connector, startLast, idLog, handlerVars>>

-----------------------------------------------------------------------------
(* Concurrent refreshes: src/app.py refresh_index, src/src/rag_system.py
   index_documents, src/src/nas_connector.py get_file_content, step by step *)

\* The threads that run the handler of refresh_button.click.
Handlers == {1, 2}

NoRefresh == [pc |-> "idle", i |-> 1, docs |-> <<>>, j |-> 1, written |-> <<>>,
              runs |-> 0]

DocKeys == NasPaths \cup {WikiPages[j] : j \in 1..Len(WikiPages)}
                    \cup {InternPages[j] : j \in 1..Len(InternPages)}

\* for doc in documents: the next document to insert is documents[j]
NextToInsert(r) == r.docs[r.j]

\* app.refresh_index -> index_documents: with a query engine the thread goes on
\* to list the files. Each handler thread is followed through one call.
RefreshStart(t) ==
    /\ refresh[t].pc = "idle" /\ refresh[t].runs = 0
    /\ query_engine # "none"
    /\ refresh' = [refresh EXCEPT ![t] = [NoRefresh EXCEPT !.pc = "files", !.runs = 1]]
    /\ UNCHANGED <<indexVars, queryVars, appVars, webVars, startBase, writeLog, sessionVars, extraVars>>

\* get_file_content up to the cache test: an existing cache file is read and
\* returned, and `if content:` decides about the document.
CacheCheck(t) ==
    LET r == refresh[t]
        p == NasListing[r.i]
        c == cacheFiles[CacheKey(p)]
    IN  /\ r.pc = "files" /\ r.i <= Len(NasListing)
        /\ refresh' = [refresh EXCEPT ![t] =
              IF c = None THEN [r EXCEPT !.pc = "open"]
              ELSE [r EXCEPT !.i = @ + 1,
                             !.docs = IF c # Some(0) THEN Append(@, p) ELSE @]]
        /\ UNCHANGED <<indexVars, queryVars, appVars, webVars, startBase, writeLog, sessionVars, extraVars>>

\* open(cache_file, 'w'): the file exists from now on, and is empty.
CacheOpen(t) ==
    LET r == refresh[t]
        p == NasListing[r.i]
    IN  /\ r.pc = "open"
        /\ cacheFiles' = [cacheFiles EXCEPT ![CacheKey(p)] = Some(0)]
        /\ writeLog' = [writeLog EXCEPT ![p] = Append(@, t)]
        /\ refresh' = [refresh EXCEPT ![t] = [r EXCEPT !.pc = "write"]]
        /\ UNCHANGED <<query_engine, index, nasText, tokens, now, indexRuns,
                       lastIndexResult, dirty, lastRun, stored, authLast,
                       queryVars, appVars, webVars, startBase, sessionVars, extraVars>>

\* f.write(mock_content) and return mock_content
CacheWrite(t) ==
    LET r == refresh[t]
        p == NasListing[r.i]
    IN  /\ r.pc = "write"
        /\ cacheFiles' = [cacheFiles EXCEPT ![CacheKey(p)] = Some(nasText[p])]
        /\ writeLog' = [writeLog EXCEPT ![p] = Append(@, t)]
        /\ refresh' = [refresh EXCEPT ![t] =
              [r EXCEPT !.pc = "files", !.i = @ + 1, !.docs = Append(@, p)]]
        /\ UNCHANGED <<query_engine, index, nasText, tokens, now, indexRuns,
                       lastIndexResult, dirty, lastRun, stored, authLast,
                       queryVars, appVars, webVars, startBase, sessionVars, extraVars>>

\* web_scraper.get_all_content() after the last file; its pages follow the files.
CollectWeb(t) ==
    LET r == refresh[t]
        web == GetAllContent(tokens, now)
    IN  /\ r.pc = "files" /\ r.i > Len(NasListing)
        /\ ~web.raised
        /\ tokens' = web.tokens
        /\ refresh' = [refresh EXCEPT ![t] =
              [r EXCEPT !.pc = IF r.docs \o web.pages = <<>> THEN "done" ELSE "insert",
                        !.docs = @ \o [k \in 1..Len(web.pages) |-> web.pages[k].key]]]
        /\ UNCHANGED <<query_engine, index, nasText, cacheFiles, now, indexRuns,
                       lastIndexResult, dirty, lastRun, stored, authLast,
                       queryVars, appVars, webVars, startBase, writeLog, sessionVars, extraVars>>

\* One self.index.insert(doc) of the loop over documents.
InsertStep(t) ==
    LET r == refresh[t]
        d == NextToInsert(r)
    IN  /\ r.pc = "insert" /\ r.j <= Len(r.docs)
        /\ index' = IndexInsert(index, [source |-> IF d \in NasPaths THEN "nas" ELSE "web",
                                        key |-> d, text |-> 1])
        /\ writeLog' = [writeLog EXCEPT ![d] = Append(@, t)]
        /\ refresh' = [refresh EXCEPT ![t] =
              [r EXCEPT !.j = @ + 1, !.written = Append(@, d),
                        !.pc = IF r.j = Len(r.docs) THEN "done" ELSE "insert"]]
        /\ UNCHANGED <<query_engine, nasText, cacheFiles, tokens, now, indexRuns,
                       lastIndexResult, dirty, lastRun, stored, authLast,
                       queryVars, appVars, webVars, startBase, sessionVars, extraVars>>

\* index_documents returns and the handler answers.
RefreshReturn(t) ==
    /\ refresh[t].pc = "done"
    /\ refresh' = [refresh EXCEPT ![t].pc = "idle"]
    /\ lastIndexResult' = Some(refresh[t].docs # <<>>)
    /\ UNCHANGED <<query_engine, index, nasText, cacheFiles, tokens, now, indexRuns,
                   dirty, lastRun, stored, authLast,
                   queryVars, appVars, webVars, startBase, writeLog, sessionVars, extraVars>>

-----------------------------------------------------------------------------
(* src/app/src/security/auth_manager.py: AuthManager over st.session_state *)

SessionTimeout == 1   \* self.session_timeout = 3600 seconds, in ticks
AuthTypes == {"wiki", "sso"}

\* What a caller may pass as token: 0 stands for a token never issued.
TokenArgs == 0..MaxTokens

\* complete_sso_authentication without the token comparison
CompleteSsoAnyToken(sess, token, t) ==
    IF sess["sso"] = None THEN [success |-> FALSE, sessions |-> sess]
    ELSE IF t > sess["sso"][1].expires_at THEN [success |-> FALSE, sessions |-> sess]
    ELSE [success |-> TRUE,
          sessions |-> [sess EXCEPT !["sso"] =
              Some([sess["sso"][1] EXCEPT !.authenticated = TRUE, !.status = "completed",
                                          !.expires_at = t + SessionTimeout])]]

\* complete_sso_authentication: no session, another token or an expired session
\* fail before anything is written.
CompleteSso(sess, token, t) ==
    IF sess["sso"] = None THEN [success |-> FALSE, sessions |-> sess]
    ELSE IF sess["sso"][1].token # token THEN [success |-> FALSE, sessions |-> sess]
    ELSE IF t > sess["sso"][1].expires_at THEN [success |-> FALSE, sessions |-> sess]
    ELSE [success |-> TRUE,
          sessions |-> [sess EXCEPT !["sso"] =
              Some([sess["sso"][1] EXCEPT !.authenticated = TRUE, !.status = "completed",
                                          !.expires_at = t + SessionTimeout])]]

\* is_authenticated: an expired session is logged out by the check.
AmIsAuthenticated(sess, a, t) ==
    IF sess[a] = None THEN [ok |-> FALSE, sessions |-> sess]
    ELSE IF t > sess[a][1].expires_at
         THEN [ok |-> FALSE, sessions |-> [sess EXCEPT ![a] = None]]
         ELSE [ok |-> sess[a][1].authenticated, sessions |-> sess]

NoSessionOp == [op |-> "none", success |-> FALSE, valid |-> FALSE, changed |-> FALSE]

\* authenticate_wiki: a session that is authenticated at once.
AuthenticateWiki ==
    /\ issued < MaxTokens
    /\ issued' = issued + 1
    /\ auth_sessions' = [auth_sessions EXCEPT !["wiki"] =
          Some([token |-> issued + 1, expires_at |-> sessionClock + SessionTimeout,
                authenticated |-> TRUE, status |-> "none"])]
    /\ lapsed' = lapsed \ {"wiki"}
    /\ sessionLast' = [NoSessionOp EXCEPT !.op = "authenticate_wiki", !.success = TRUE,
                                          !.changed = TRUE]
    /\ UNCHANGED <<indexVars, queryVars, appVars, webVars, startBase, refreshVars, extraVars,
                   sessionClock, ssoIssued, completedFor>>

\* authenticate_sso: a pending session under a fresh token replaces any other.
AuthenticateSso ==
    /\ issued < MaxTokens
    /\ issued' = issued + 1
    /\ ssoIssued' = issued + 1
    /\ auth_sessions' = [auth_sessions EXCEPT !["sso"] =
          Some([token |-> issued + 1, expires_at |-> sessionClock + SessionTimeout,
                authenticated |-> FALSE, status |-> "pending"])]
    /\ lapsed' = lapsed \ {"sso"}
    /\ sessionLast' = [NoSessionOp EXCEPT !.op = "authenticate_sso", !.success = TRUE,
                                          !.changed = TRUE]
    /\ UNCHANGED <<indexVars, queryVars, appVars, webVars, startBase, refreshVars, extraVars,
                   sessionClock, completedFor>>

\* complete_sso_authentication(token, sso_response). valid: the token is the one
\* the most recent authenticate_sso issued and its session is there and has not
\* expired.
CompleteSsoCall(token) ==
    LET r == CompleteSso(auth_sessions, token, sessionClock)
        valid == /\ token = ssoIssued
                 /\ auth_sessions["sso"] # None
                 /\ sessionClock <= auth_sessions["sso"][1].expires_at
    IN  /\ auth_sessions' = r.sessions
        /\ completedFor' = IF valid THEN token ELSE completedFor
        /\ sessionLast' = [op |-> "complete_sso_authentication", success |-> r.success,
                           valid |-> valid, changed |-> r.sessions # auth_sessions]
        /\ UNCHANGED <<indexVars, queryVars, appVars, webVars, startBase, refreshVars, extraVars,
                       sessionClock, issued, ssoIssued, lapsed>>

\* is_authenticated(auth_type); get_auth_session(auth_type) does the same to
\* the sessions.
AmIsAuthenticatedCall(a) ==
    LET r == AmIsAuthenticated(auth_sessions, a, sessionClock)
    IN  /\ auth_sessions' = r.sessions
        /\ sessionLast' = [op |-> "is_authenticated", success |-> r.ok, valid |-> FALSE,
                           changed |-> r.sessions # auth_sessions]
        /\ UNCHANGED <<indexVars, queryVars, appVars, webVars, startBase, refreshVars, extraVars,
                       sessionClock, issued, ssoIssued, completedFor, lapsed>>

\* get_auth_status: is_authenticated('wiki'), then is_authenticated('sso').
GetAuthStatus ==
    LET w == AmIsAuthenticated(auth_sessions, "wiki", sessionClock)
        o == AmIsAuthenticated(w.sessions, "sso", sessionClock)
    IN  /\ auth_sessions' = o.sessions
        /\ sessionLast' = [op |-> "get_auth_status", success |-> w.ok \/ o.ok,
                           valid |-> FALSE, changed |-> o.sessions # auth_sessions]
        /\ UNCHANGED <<indexVars, queryVars, appVars, webVars, startBase, refreshVars, extraVars,
                       sessionClock, issued, ssoIssued, completedFor, lapsed>>

\* refresh_session: the stored session, expired or not, expires a timeout from now.
RefreshSession(a) ==
    /\ auth_sessions' = IF auth_sessions[a] = None THEN auth_sessions
                        ELSE [auth_sessions EXCEPT ![a] =
                                Some([auth_sessions[a][1] EXCEPT
                                        !.expires_at = sessionClock + SessionTimeout])]
    /\ sessionLast' = [op |-> "refresh_session", success |-> auth_sessions[a] # None,
                       valid |-> FALSE, changed |-> auth_sessions' # auth_sessions]
    /\ UNCHANGED <<indexVars, queryVars, appVars, webVars, startBase, refreshVars, extraVars,
                   sessionClock, issued, ssoIssued, completedFor, lapsed>>

\* cleanup_expired_sessions: every expired session is deleted.
CleanupExpiredSessions ==
    /\ auth_sessions' = [a \in AuthTypes |->
          IF auth_sessions[a] # None /\ sessionClock > auth_sessions[a][1].expires_at
          THEN None ELSE auth_sessions[a]]
    /\ sessionLast' = [op |-> "cleanup_expired_sessions", success |-> TRUE,
                       valid |-> FALSE, changed |-> auth_sessions' # auth_sessions]
    /\ UNCHANGED <<indexVars, queryVars, appVars, webVars, startBase, refreshVars, extraVars,
                   sessionClock, issued, ssoIssued, completedFor, lapsed>>

\* datetime.now() moves on by a tick; lapsed gains the sessions whose expires_at
\* is now in the past.
SessionTick ==
    /\ sessionClock < MaxSessionClock
    /\ sessionClock' = sessionClock + 1
    /\ lapsed' = lapsed \cup {a \in AuthTypes :
          auth_sessions[a] # None /\ sessionClock + 1 > auth_sessions[a][1].expires_at}
    /\ UNCHANGED <<indexVars, queryVars, appVars, webVars, startBase, refreshVars, extraVars,
                   auth_sessions, issued, ssoIssued, completedFor, sessionLast>>

-----------------------------------------------------------------------------
(* src/src/nas_connector.py: get_file_content called with any path *)

\* Paths a caller may pass; some differ only in "/", "\\" and "_".
CallPaths == {<<"/", "a", "/", "b.pdf">>, <<"/", "a", "_", "b.pdf">>,
              <<"\\", "a", "\\", "b.pdf">>,
              <<"/", "Forschungsprojekt", "/", "x.pdf">>,
              <<"/", "Forschungsprojekt", "_", "x.pdf">>,
              <<"/", "c.pdf">>}
CallKeys == {CacheKey(p) : p \in CallPaths}

\* os.path.basename(file_path): what follows the last "/"
RECURSIVE Basename(_)
Basename(p) ==
    IF \A i \in 1..Len(p) : p[i] # "/" THEN p
    ELSE Basename(Tail(p))

\* _get_mock_content: chosen by the words in the file name, which the last
\* branch also puts into the text.
MockContent(p) ==
    LET filename == Basename(p)
        has(w) == \E i \in 1..Len(filename) : filename[i] = w
    IN  IF has("Forschungsprojekt") THEN <<"Forschungsprojekt: Automatisierung">>
        ELSE IF has("Laborgeraete") THEN <<"Anleitung fuer Laborgeraete">>
        ELSE IF has("Praesentation") THEN <<"FAPS Lehrstuhl Praesentation">>
        ELSE <<"Inhalt der Datei: ">> \o filename

MockText == [p \in CallPaths |-> MockContent(p)]

NoFileOp == [op |-> "none", path |-> <<>>, content |-> None]

\* nas_connector.get_file_content(p); open_fail: an open() raises.
GetFileContentCall(p, fault) ==
    LET r == GetFileContent(fileCache, MockText, p, fault)
    IN  /\ fileCache' = r.cache
        /\ fileLast' = [op |-> "get_file_content", path |-> p, content |-> r.content]
        /\ UNCHANGED <<indexVars, queryVars, appVars, webVars, startBase, refreshVars,
                       sessionVars, singletonVars, sitemapVars>>

-----------------------------------------------------------------------------
(* src/src/rag_system.py: get_rag_system called from the handler threads *)

\* The worker threads Gradio runs the three handlers of app.py on.
GetThreads == {1, 2, 3}

\* The threads are idle until the interface is launched.
GetPcInit == [t \in GetThreads |-> "idle"]

\* python app.py: __main__ calls get_rag_system() before any handler thread
\* exists, then launches the interface.
MainGetRagSystem ==
    /\ launch = "no"
    /\ created' = created + 1
    /\ ragGlobal' = created + 1
    /\ returnedSet' = returnedSet \cup {created + 1}
    /\ launch' = "main"
    /\ UNCHANGED <<indexVars, queryVars, appVars, webVars, startBase, refreshVars,
                   sessionVars, cacheVars, sitemapVars, getPc, getLocal>>

\* create_interface() launched by a module that imports app: __main__ of app.py
\* has not run.
ImportLaunch ==
    /\ launch = "no"
    /\ launch' = "import"
    /\ UNCHANGED <<indexVars, queryVars, appVars, webVars, startBase, refreshVars,
                   sessionVars, cacheVars, sitemapVars, ragGlobal, created, getPc, getLocal,
                   returnedSet>>

\* A handler (search_knowledge, get_system_status, refresh_index) reaches
\* get_rag_system(): if rag_system is None
GetCheck(t) ==
    /\ launch # "no"
    /\ getPc[t] = "idle"
    /\ getPc' = [getPc EXCEPT ![t] = IF ragGlobal = 0 THEN "construct" ELSE "return"]
    /\ UNCHANGED <<indexVars, queryVars, appVars, webVars, startBase, refreshVars,
                   sessionVars, cacheVars, sitemapVars, ragGlobal, created, getLocal, returnedSet,
                   launch>>

\* RAGSystem(): a new instance, built while other threads run
GetConstruct(t) ==
    /\ getPc[t] = "construct"
    /\ created' = created + 1
    /\ getLocal' = [getLocal EXCEPT ![t] = created + 1]
    /\ getPc' = [getPc EXCEPT ![t] = "store"]
    /\ UNCHANGED <<indexVars, queryVars, appVars, webVars, startBase, refreshVars,
                   sessionVars, cacheVars, sitemapVars, ragGlobal, returnedSet, launch>>

\* rag_system = <the new instance>
GetStore(t) ==
    /\ getPc[t] = "store"
    /\ ragGlobal' = getLocal[t]
    /\ getPc' = [getPc EXCEPT ![t] = "return"]
    /\ UNCHANGED <<indexVars, queryVars, appVars, webVars, startBase, refreshVars,
                   sessionVars, cacheVars, sitemapVars, created, getLocal, returnedSet, launch>>

\* return rag_system: the global as it is now
GetReturn(t) ==
    /\ getPc[t] = "return"
    /\ returnedSet' = returnedSet \cup {ragGlobal}
    /\ getPc' = [getPc EXCEPT ![t] = "idle"]
    /\ UNCHANGED <<indexVars, queryVars, appVars, webVars, startBase, refreshVars,
                   sessionVars, cacheVars, sitemapVars, ragGlobal, created, getLocal, launch>>

-----------------------------------------------------------------------------
(* src/app/src/connectors/web_scraper.py: _find_sitemap and its parsers *)

\* The sitemap documents a site may serve: "s1" at /sitemap.xml, "s2" at
\* /sitemap_index.xml, either reachable from the other or from robots.txt.
SitemapUrls == {"s1", "s2"}
SitemapCandidates == <<"s1", "s2", "robots">>

\* The <sitemap><loc> entries of one document, in order: none, another document,
\* the document itself, once or twice.
SubLists == {<<>>, <<"s1">>, <<"s2">>, <<"s1", "s1">>, <<"s1", "s2">>}
Webs == [SitemapUrls -> SubLists]

\* The <url><loc> entries of a document: one page of its own.
DocUrls(s) == <<<<"page", s>>>>

\* No further call fits on the interpreter's stack; the call raises
\* RecursionError, which 'except Exception' catches.
StackNeverFull(stack) == FALSE

StackFull(stack) == Len(stack) >= RecursionLimit

\* Requests one _find_sitemap call can make with documents of at most two
\* <sitemap> entries: three candidates, and one per _parse_sitemap call.
SitemapRequestBound == 2 + 2 ^ RecursionLimit

\* The model follows a _find_sitemap call for two requests more than that.
MaxSitemapRequests == SitemapRequestBound + 2

NoSitemapRun == [pc |-> "idle", i |-> 1, stack |-> <<>>, call |-> None, requests |-> 0,
                 result |-> <<>>, web |-> [s \in SitemapUrls |-> <<>>], robots |-> None,
                 overflowed |-> FALSE]

\* _parse_sitemap_xml(content of s) begins: a frame with the <url> entries
\* collected and the <sitemap> entries still to follow.
Frame(w, s) == [urls |-> DocUrls(s), rest |-> w[s]]

\* A called function returns r to its caller: the frame on top extends its urls,
\* or, with no frame left, _find_sitemap returns r.
ReturnTo(run, stack, r) ==
    IF stack = <<>>
    THEN [run EXCEPT !.pc = "done", !.stack = <<>>, !.call = None, !.result = r]
    ELSE [run EXCEPT !.call = None,
                     !.stack = [stack EXCEPT ![Len(stack)].urls = @ \o r]]

\* crawl_sitemap calls self._find_sitemap() on a site serving w; robots is the
\* first 'Sitemap:' line of its robots.txt, if any.
FindSitemapStart(w, robots) ==
    /\ sm.pc \in {"idle", "done"}
    /\ sm' = [NoSitemapRun EXCEPT !.pc = "find", !.web = w, !.robots = robots]
    /\ UNCHANGED <<indexVars, queryVars, appVars, webVars, startBase, refreshVars,
                   sessionVars, cacheVars, singletonVars>>

\* The loop of _find_sitemap requests its next candidate; ok: a response came.
FindRequest(ok) ==
    /\ sm.pc = "find"
    /\ sm.requests < MaxSitemapRequests
    /\ LET c == SitemapCandidates[sm.i]
           run == [sm EXCEPT !.requests = @ + 1]
       IN  sm' = IF ~ok
                 THEN IF sm.i = Len(SitemapCandidates)
                      THEN [run EXCEPT !.pc = "done", !.result = <<>>]
                      ELSE [run EXCEPT !.i = @ + 1]
                 ELSE IF c # "robots"
                      THEN [run EXCEPT !.pc = "parse", !.stack = <<Frame(sm.web, c)>>]
                      ELSE IF sm.robots = None
                           THEN [run EXCEPT !.pc = "done", !.result = <<>>]
                           ELSE [run EXCEPT !.pc = "parse", !.call = sm.robots]
    /\ UNCHANGED <<indexVars, queryVars, appVars, webVars, startBase, refreshVars,
                   sessionVars, cacheVars, singletonVars>>

\* _parse_sitemap(url) runs: its request, then _parse_sitemap_xml of the
\* response, or [] without one.
ParseSitemap(ok) ==
    /\ sm.pc = "parse" /\ sm.call # None
    /\ ~StackFull(sm.stack)
    /\ sm.requests < MaxSitemapRequests
    /\ LET run == [sm EXCEPT !.requests = @ + 1]
       IN  sm' = IF ok
                 THEN [run EXCEPT !.call = None,
                                  !.stack = Append(sm.stack, Frame(sm.web, sm.call[1]))]
                 ELSE ReturnTo(run, sm.stack, <<>>)
    /\ UNCHANGED <<indexVars, queryVars, appVars, webVars, startBase, refreshVars,
                   sessionVars, cacheVars, singletonVars>>

\* The call does not fit on the stack. The RecursionError is caught by the
\* 'except Exception' of the k-th enclosing _parse_sitemap_xml (a handler that
\* has no room to log raises it again), and that one returns [].
ParseOverflow(k) ==
    /\ sm.pc = "parse" /\ sm.call # None
    /\ StackFull(sm.stack)
    /\ k \in 1..Len(sm.stack)
    /\ sm' = ReturnTo([sm EXCEPT !.overflowed = TRUE],
                      SubSeq(sm.stack, 1, Len(sm.stack) - k), <<>>)
    /\ UNCHANGED <<indexVars, queryVars, appVars, webVars, startBase, refreshVars,
                   sessionVars, cacheVars, singletonVars>>

\* The loop over the <sitemap> entries calls _parse_sitemap with the next one.
ParseNext ==
    /\ sm.pc = "parse" /\ sm.call = None
    /\ sm.stack # <<>> /\ sm.stack[Len(sm.stack)].rest # <<>>
    /\ sm' = [sm EXCEPT !.call = Some(Head(sm.stack[Len(sm.stack)].rest)),
                        !.stack[Len(sm.stack)].rest = Tail(@)]
    /\ UNCHANGED <<indexVars, queryVars, appVars, webVars, startBase, refreshVars,
                   sessionVars, cacheVars, singletonVars>>

\* The loop is over: _parse_sitemap_xml returns urls.
ParseReturn ==
    /\ sm.pc = "parse" /\ sm.call = None
    /\ sm.stack # <<>> /\ sm.stack[Len(sm.stack)].rest = <<>>
    /\ sm' = ReturnTo(sm, SubSeq(sm.stack, 1, Len(sm.stack) - 1),
                      sm.stack[Len(sm.stack)].urls)
    /\ UNCHANGED <<indexVars, queryVars, appVars, webVars, startBase, refreshVars,
                   sessionVars, cacheVars, singletonVars>>

\* The thread inside _find_sitemap takes its next step.
SitemapStep ==
    \/ \E ok \in BOOLEAN : FindRequest(ok)
    \/ \E ok \in BOOLEAN : ParseSitemap(ok)
    \/ \E k \in 1..RecursionLimit : ParseOverflow(k)
    \/ ParseNext
    \/ ParseReturn

-----------------------------------------------------------------------------
(* Construction *)

\* RAGSystem.__init__: Chroma reachable, or the in-memory index over the seed
\* documents, or neither.
InitIndex ==
    /\ query_engine \in {"chroma", "mock", "none"}
    /\ index = IF query_engine = "mock" THEN MockSeeds ELSE <<>>
    /\ nasText = [p \in NasPaths |-> 1]
    /\ cacheFiles = [k \in CacheKeys |-> None]
    /\ tokens = [s \in Services |-> None]
    /\ lastRun = NoRun
    /\ stored = [s \in Services |-> None]
    /\ authLast = NoAuthOp
    /\ now = 0
    /\ indexRuns = 0
    /\ lastIndexResult = None
    /\ dirty = FALSE

NoOp == [op |-> "none", question |-> <<>>, language |-> "de", raised |-> FALSE,
         response |-> Msg("", "de"), sources |-> <<>>, error |-> FALSE,
         calls |-> NoCalls, nodes |-> <<>>, caught |-> FALSE]

\* Localization.__init__ and FAPSKnowledgeApp.__init__
InitQueryVars ==
    /\ translations = {"de", "en"}
    /\ current_language = "de"
    /\ chat_history = 0
    /\ qLast = NoOp

NoProcessQuery == [op |-> "none", query |-> <<>>, response |-> Msg("", "de"),
                   sources |-> <<>>, context |-> <<>>, llm |-> "not_called",
                   llmCalls |-> 0, raised |-> FALSE]

\* The Streamlit application before any connector is constructed.
InitAppVars ==
    /\ mount = "missing"
    /\ shareFiles = {}
    /\ probe = FALSE
    /\ conn = NoConnector
    /\ nasLast = NoNasOp
    /\ pqLast = NoProcessQuery

\* No refresh handler is running.
InitHandlerVars ==
    /\ refresh = [t \in Handlers |-> NoRefresh]
    /\ writeLog = [d \in DocKeys |-> <<>>]
    /\ auth_sessions = [a \in AuthTypes |-> None]
    /\ sessionClock = 0
    /\ issued = 0
    /\ ssoIssued = 0
    /\ completedFor = 0
    /\ lapsed = {}
    /\ sessionLast = NoSessionOp
    /\ fileCache = [k \in CallKeys |-> None]
    /\ fileLast = NoFileOp
    /\ ragGlobal = 0
    /\ created = 0
    /\ getPc = GetPcInit
    /\ getLocal = [t \in GetThreads |-> 0]
    /\ returnedSet = {}
    /\ launch = "no"
    /\ sm = NoSitemapRun

\* Every backend answers, the engine is constructed, the session has no
\* db_connector yet.
InitStartVars ==
    /\ backends = [lancedb |-> TRUE, chroma |-> TRUE, ollama |-> TRUE]
    /\ rag_system = TRUE
    /\ db_connector = NoDbConnector
    /\ startLast = NoStartOp
    /\ hashSeed = 0
    /\ idLog = [x \in SourceItems |-> {}]
    /\ InitHandlerVars

\* No scraper constructed; time.time() is far beyond request_delay.
InitWebVars ==
    /\ clock = RequestDelay
    /\ scrapers = [i \in ScraperIds |-> NoScraper]
    /\ requestLog = <<>>
    /\ crawl = NoCrawl

Init == InitIndex /\ InitQueryVars /\ InitAppVars /\ InitWebVars /\ InitStartVars

\* At most one file fails per run.
FaultChoices == {[p \in NasPaths |-> IF p = bad THEN m ELSE "ok"] :
                    bad \in NasPaths, m \in FaultModes}
NextIndex ==
    \/ \E f \in FaultChoices, k \in 0..MaxFailAt : IndexDocuments(f, k)
    \/ \E p \in NasPaths : ChangeSource(p)
    \/ \E s \in {"wiki", "intern_fau"} : StoreToken(s, "t1", NoExpiry)
    \/ \E s \in Services : ClearToken(s)

SpecIndex == Init /\ [][NextIndex]_vars

\* The token store of auth_manager and the web collector that reads it, under a
\* moving clock.
InitAuth ==
    /\ InitIndex /\ query_engine = "chroma"
    /\ InitQueryVars
    /\ InitAppVars
    /\ InitWebVars
    /\ InitStartVars

NextAuth ==
    \/ \E s \in Services, tk \in TokenValues, e \in Expiries : StoreToken(s, tk, e)
    \/ \E s \in Services : ClearToken(s)
    \/ \E s \in Services : GetTokenCall(s)
    \/ GetAllContentCall
    \/ AdvanceTime

SpecAuth == InitAuth /\ [][NextAuth]_vars

\* The answering side: the engine as constructed, over a store that is empty, holds
\* the seed documents, or holds what an earlier indexing run of the first listed
\* file and the wiki left in the Chroma collection; the locale files found on disk.
StoredBefore == <<[source |-> "nas", key |-> P1, text |-> 1],
                  [source |-> "web", key |-> WikiPages[1], text |-> 1]>>

InitQuery ==
    /\ query_engine \in {"chroma", "mock", "none"}
    /\ index \in (IF query_engine = "mock" THEN {MockSeeds}
                  ELSE IF query_engine = "chroma" THEN {<<>>, StoredBefore}
                  ELSE {<<>>})
    /\ nasText = [p \in NasPaths |-> 1]
    /\ cacheFiles = [k \in CacheKeys |-> None]
    /\ tokens = [s \in Services |-> None]
    /\ lastRun = NoRun
    /\ stored = [s \in Services |-> None]
    /\ authLast = NoAuthOp
    /\ now = 0
    /\ indexRuns = 0
    /\ lastIndexResult = None
    /\ dirty = FALSE
    /\ translations \in SUBSET Languages
    /\ current_language = "de"
    /\ chat_history = 0
    /\ qLast = NoOp
    /\ InitAppVars
    /\ InitWebVars
    /\ InitStartVars

NextQuery ==
    \/ \E q \in Questions, l \in Languages, sel \in Retrievals(index, TopK),
          o \in EngineOutcomes : RagQuery(q, l, sel, o)
    \/ \E q \in Questions, l \in Languages, sel \in Retrievals(index, TopK),
          o \in EngineOutcomes : SearchKnowledge(q, l, sel, o)
    \/ \E q \in Questions, l \in Languages : DemoSearch(q, l)
    \/ \E l \in Languages : ChangeLanguage(l)

SpecQuery == InitQuery /\ [][NextQuery]_vars

\* The Streamlit side: a share with some files, in any mount state.
InitApp ==
    /\ InitIndex /\ query_engine = "none"
    /\ InitQueryVars
    /\ mount \in MountStates
    /\ shareFiles \in {{}, ShareUniverse}
    /\ probe = FALSE
    /\ conn = NoConnector
    /\ nasLast = NoNasOp
    /\ pqLast = NoProcessQuery
    /\ InitWebVars
    /\ InitStartVars

PageHit == [filename |-> <<"page">>, extension |-> "", content |-> Some(<<"a">>)]

NextNas ==
    \/ \E u \in BOOLEAN : NasConstruct(u)
    \/ \E n \in {1, 1000} : NasListFiles(n)
    \/ \E q \in SearchQueries, n \in {1, 10} : NasSearchCall(q, n)
    \/ NasIsAccessible
    \/ \E m \in MountStates : MountChange(m)

SpecNas == InitApp /\ [][NextNas]_vars

\* The chat of the Streamlit UI over a share that is mounted and remounted.
NextUi ==
    \/ \E q \in SearchQueries, nas \in BOOLEAN, n \in SliderValues, llm \in LlmOutcomes,
          u \in BOOLEAN, rel \in {<<>>, <<PageHit>>} :
            ProcessQuery(q, nas, n, llm, u, rel)
    \/ \E m \in MountStates : MountChange(m)

SpecUi == InitApp /\ [][NextUi]_vars

\* The web scrapers of the Streamlit application, none constructed yet.
InitWeb ==
    /\ InitIndex /\ query_engine = "none"
    /\ InitQueryVars
    /\ InitAppVars
    /\ InitWebVars
    /\ InitStartVars

\* Scrapers constructed by sessions that run side by side; each scraper makes
\* its requests one after the other.
NextRate ==
    \/ \E i \in ScraperIds, base \in BaseUrls : ScraperConstruct(i, base)
    \/ \E i \in ScraperIds : RateLimitEnter(i)
    \/ \E i \in ScraperIds : RateLimitWake(i)
    \/ \E i \in ScraperIds, o \in RequestOutcomes \cup {"invalid_url"} : SendRequest(i, o)
    \/ \E i \in ScraperIds : RequestReturn(i)
    \/ Tick

SpecRate == InitWeb /\ [][NextRate]_vars

NextCrawl ==
    \/ \E n \in 0..MaxPages, sitemap \in SitemapLists : CrawlStart(n, sitemap)
    \/ \E page \in PageResults : CrawlStep(page)
    \/ CrawlFinish

SpecCrawl == InitWeb /\ [][NextCrawl]_vars

\* scrape_page returns (every request has timeout=10 and every sleep is finite),
\* so the thread inside crawl_sitemap keeps taking steps.
SpecCrawlFair == SpecCrawl /\ WF_vars(CrawlLoop)

\* Application start: the engine and the LanceDB connector are constructed once
\* each, under any availability of the backends, and asked for their status.
InitStart ==
    /\ InitIndex /\ query_engine = "none"
    /\ InitQueryVars
    /\ InitAppVars
    /\ InitWebVars
    /\ backends \in Backends
    /\ rag_system = FALSE
    /\ db_connector = NoDbConnector
    /\ startLast = NoStartOp
    /\ hashSeed = 0
    /\ idLog = [x \in SourceItems |-> {}]
    /\ InitHandlerVars

NextStart ==
    \/ RagConstruct
    \/ GetSystemStatus
    \/ LanceConstruct
    \/ LanceTestConnection
    \/ \E b \in Backends : BackendChange(b)

SpecStart == InitStart /\ [][NextStart]_vars

\* Collection runs over an unchanged share and site, in one process or in
\* several, one after the other.
NextIds ==
    \/ \E f \in ShareUniverse : CollectFile(f)
    \/ \E u \in CrawlUrls : ScrapePage(u)
    \/ \E seed \in HashSeeds : ProcessStart(seed)

SpecIds == InitWeb /\ [][NextIds]_vars

\* Two refresh clicks handled by two threads at once, over an empty cache; a
\* token for intern.fau.de may be stored meanwhile.
InitRefresh ==
    /\ InitIndex /\ query_engine = "chroma"
    /\ InitQueryVars
    /\ InitAppVars
    /\ InitWebVars
    /\ InitStartVars

NextRefresh ==
    \/ \E t \in Handlers : RefreshStart(t)
    \/ \E t \in Handlers : CacheCheck(t)
    \/ \E t \in Handlers : CacheOpen(t)
    \/ \E t \in Handlers : CacheWrite(t)
    \/ \E t \in Handlers : CollectWeb(t)
    \/ \E t \in Handlers : InsertStep(t)
    \/ \E t \in Handlers : RefreshReturn(t)
    \/ StoreToken("intern_fau", "t1", NoExpiry)

SpecRefresh == InitRefresh /\ [][NextRefresh]_vars

\* The AuthManager of one Streamlit session under a moving clock.
NextSession ==
    \/ AuthenticateWiki
    \/ AuthenticateSso
    \/ \E token \in TokenArgs : CompleteSsoCall(token)
    \/ \E a \in AuthTypes : AmIsAuthenticatedCall(a)
    \/ GetAuthStatus
    \/ \E a \in AuthTypes : RefreshSession(a)
    \/ CleanupExpiredSessions
    \/ SessionTick

SpecSession == InitWeb /\ [][NextSession]_vars

\* One NASConnector asked for the content of any paths, in any order.
NextCache ==
    \E p \in CallPaths, fault \in {"none", "open_fail"} : GetFileContentCall(p, fault)

SpecCache == InitWeb /\ [][NextCache]_vars

\* get_rag_system from __main__ and from the threads Gradio runs handlers on.
NextSingleton ==
    \/ MainGetRagSystem
    \/ ImportLaunch
    \/ \E t \in GetThreads : \/ GetCheck(t)
                             \/ GetConstruct(t)
                             \/ GetStore(t)
                             \/ GetReturn(t)

SpecSingleton == InitWeb /\ [][NextSingleton]_vars

\* Sitemap discovery on any site of SitemapUrls.
NextSitemap ==
    \/ \E w \in Webs, robots \in {None} \cup {Some(s) : s \in SitemapUrls} :
          FindSitemapStart(w, robots)
    \/ \E ok \in BOOLEAN : FindRequest(ok)
    \/ \E ok \in BOOLEAN : ParseSitemap(ok)
    \/ \E k \in 1..RecursionLimit : ParseOverflow(k)
    \/ ParseNext
    \/ ParseReturn

SpecSitemap == InitWeb /\ [][NextSitemap]_vars

\* One thread runs _find_sitemap; each request has timeout=10 and each sleep of
\* _rate_limit is finite, so the thread keeps taking steps.
SpecSitemapFair == SpecSitemap /\ WF_vars(SitemapStep)

-----------------------------------------------------------------------------
(* Claims about indexing (checked under SpecIndex) *)

\* C1: re-indexing never duplicates a document's entries: however often
\* index_documents / refresh_index ran, the vector store holds at most one entry
\* set per collected document (per NAS path, per page URL).
C1_OneEntrySetPerDocument ==
    \A i, j \in 1..Len(index) : index[i].key = index[j].key => i = j

\* C2: once index_documents has completed successfully after the last change of
\* a source text, no earlier version of a file's text is left in the vector store
\* or in the content cache (so no later query can cite it).
C2_NoOldTextAfterRefresh ==
    (lastIndexResult = Some(TRUE) /\ ~dirty) =>
        /\ \A i \in 1..Len(index) :
              index[i].source = "nas" => ~(index[i].text < nasText[index[i].key])
        /\ \A p \in NasPaths :
              cacheFiles[CacheKey(p)] = None
              \/ cacheFiles[CacheKey(p)][1] = 0
              \/ ~(cacheFiles[CacheKey(p)][1] < nasText[p])

-----------------------------------------------------------------------------
(* Claims about answering (checked under SpecQuery) *)

\* The texts the blank-question branches answer with.
NoQueryTexts == {"no_results", "Please enter a question.",
                 "Bitte stellen Sie eine Frage.", "Please ask a question."}

\* C3: every answer operation (search_knowledge, RAGSystem.query, demo_search)
\* given an empty or whitespace-only question returns the canned no-query
\* message and makes no vector-store query and no model call.
C3_EmptyQueryShortCircuit ==
    (qLast.op # "none" /\ Strip(qLast.question) = <<>>) =>
        /\ qLast.response.text \in NoQueryTexts
        /\ qLast.calls = NoCalls

\* The wrappers do short-circuit: search_knowledge and demo_search answer a blank
\* question with a no-query message and call nothing.
ShortCircuitInWrappers ==
    (qLast.op \in {"search_knowledge", "demo_search"} /\ Strip(qLast.question) = <<>>)
        => (qLast.calls = NoCalls /\ qLast.response.text \in NoQueryTexts)

\* C4: whenever retrieval ran and yielded no entry, the answer is a fallback text
\* in the requested language and no generation call was made.
C4_ZeroRetrievalFallback ==
    (qLast.op \in {"query", "search_knowledge"} /\ qLast.calls.vs = 1
        /\ ~qLast.error /\ qLast.nodes = <<>>) =>
        /\ qLast.response.lang = qLast.language
        /\ qLast.calls.llm = 0

\* C5: when the generation call fails, the answer is the very message the
\* zero-retrieval path returns, and nothing is raised to the caller.
C5_GenerationFailureFallsBack ==
    (qLast.op \in {"query", "search_knowledge"} /\ qLast.calls.llm = 1 /\ qLast.error) =>
        /\ qLast.response = EngineQuery(<<>>, {}, qLast.language, "ok").text
        /\ ~qLast.raised

-----------------------------------------------------------------------------
(* Claims about the NAS connector (checked under SpecNas) *)

\* C6: a connector constructed on a writable mount is disabled: as long as the
\* mount has stayed writable, list_files and search return the empty list and
\* do not raise.
C6_WritableMountDisabled ==
    (/\ conn.constructed /\ conn.stayedWritable
     /\ nasLast.op \in {"list_files", "search"})
        => (nasLast.files = <<>> /\ ~nasLast.raised)

\* The mount is missing (absent, or not a directory) or inaccessible (it cannot
\* be stat'ed, or it cannot be read).
MountUnusable(m) == m \in {"missing", "file", "noaccess", "unreadable"}

\* C7: with the mount missing or inaccessible, construction does not raise,
\* is_nas_accessible returns False and list_files and search return the empty
\* list without raising.
C7_MissingMountIsEmpty ==
    /\ (conn.constructed /\ MountUnusable(conn.mountAtInit)) => ~conn.raised
    /\ (nasLast.op # "none" /\ MountUnusable(nasLast.mountAtCall)) =>
          /\ ~nasLast.raised
          /\ nasLast.op = "is_nas_accessible" => ~nasLast.flag
          /\ nasLast.op \in {"list_files", "search"} => nasLast.files = <<>>

\* What does hold of the connector: no call raises, and a listing is empty
\* whenever the mount is not a readable directory.
NasNeverRaises ==
    /\ ~conn.raised /\ ~nasLast.raised
    /\ (nasLast.op \in {"list_files", "search"} /\ MountUnusable(nasLast.mountAtCall))
          => nasLast.files = <<>>
    /\ (nasLast.op = "is_nas_accessible" /\ nasLast.mountAtCall \in {"missing", "file", "noaccess"})
          => ~nasLast.flag

-----------------------------------------------------------------------------
(* Claims about rate limiting (checked under SpecRate) *)

\* The requests of scraper i, in order
RequestsOf(i) == SelectSeq(requestLog, LAMBDA r : r.scraper = i)

C9_SharedPerDomain ==
    \A a, b \in 1..Len(requestLog) :
        (/\ a < b
         /\ requestLog[a].domain = requestLog[b].domain
         /\ requestLog[a].outcome # "invalid_url"
         /\ requestLog[b].outcome # "invalid_url")
            => requestLog[b].at - requestLog[a].at >= RequestDelay

-----------------------------------------------------------------------------
(* Claims about crawling (checked under SpecCrawlFair) *)

\* C10: the link-following loop of crawl_sitemap terminates, whatever links the
\* pages carry (cycles and self-links included) and whichever fetches fail.
C10_CrawlTerminates == (crawl.pc = "running") ~> (crawl.pc = "done")

\* C10 witness: a crawl has returned after meeting a visited URL again and after
\* a failed fetch, with pages crawled.
C10_Witness ==
    /\ crawl.pc = "done"
    /\ crawl.skipped /\ crawl.failed
    /\ Len(crawl.crawled_pages) >= 2

\* What bounds the loop: the queue never outgrows the budget and the sitemap,
\* no URL is crawled twice, and the budget is kept.
CrawlBounded ==
    /\ Len(crawl.urls_to_visit) <= 1 + 2 * MaxPages
    /\ Len(crawl.crawled_pages) <= crawl.max_pages
    /\ \A a, b \in 1..Len(crawl.crawled_pages) :
          a # b => crawl.crawled_pages[a] # crawl.crawled_pages[b]

\* NoRepeat(q): no element occurs twice in the sequence q
NoRepeat(q) == \A a, b \in 1..Len(q) : a # b => q[a] # q[b]

\* C11: within one crawl_sitemap run no URL is passed to scrape_page twice and
\* no URL occurs twice in the pages returned, however often the sitemap and
\* the page links name it.
C11_VisitedDedup == NoRepeat(crawl.fetched) /\ NoRepeat(crawl.crawled_pages)

\* C11 witness: a crawl has returned that met an already visited URL in its
\* queue and skipped it, after fetching three URLs.
C11_Witness ==
    /\ crawl.pc = "done"
    /\ crawl.skipped
    /\ Len(crawl.fetched) = 3

\* C12: one crawl_sitemap(max_pages) run makes at most max_pages scrape_page
\* calls and returns at most max_pages pages.
C12_PageBudget ==
    /\ Len(crawl.fetched) <= crawl.max_pages
    /\ Len(crawl.crawled_pages) <= crawl.max_pages

\* What does hold of the budget: at most max_pages pages are returned.
ReturnedWithinBudget == Len(crawl.crawled_pages) <= crawl.max_pages

-----------------------------------------------------------------------------
(* Claims about a collection run (checked under SpecIndex) *)

\* The entries the last index_documents call inserted
RunEntries == SubSeq(index, lastRun.start, Len(index))

\* C14: in an index_documents run whose collection and inserts go through, a
\* file whose content cannot be read is skipped, and every other file that has
\* content and every page of each authenticated service is collected and
\* inserted in that run.
C14_PartialFailureTolerated ==
    (lastRun.ran /\ lastRun.clean) =>
        /\ \A p \in lastRun.unreadable :
              \A i \in 1..Len(RunEntries) : RunEntries[i].key # p
        /\ \A k \in lastRun.expected :
              \E i \in 1..Len(RunEntries) : RunEntries[i].key = k

\* C14 witness: a run in which the first listed file could not be read has
\* inserted the second file and the wiki pages and returned True.
C14_Witness ==
    /\ lastRun.ran /\ lastRun.clean
    /\ lastRun.unreadable = {NasListing[1]}
    /\ lastIndexResult = Some(TRUE)
    /\ \E i \in 1..Len(RunEntries) : RunEntries[i].key = NasListing[2]
    /\ \E i \in 1..Len(RunEntries) : RunEntries[i].key = WikiPages[1]

-----------------------------------------------------------------------------
(* Claims about start-up (checked under SpecStart) *)

\* C15: with a backend unavailable at start-up neither constructing the engine or
\* the vector store connector nor a readiness query raises.
C15_StartupNeverRaises == ~startLast.raised

\* Constructing RAGSystem and the readiness queries never raise, and without
\* Chroma the engine ends over the seed documents or without a query engine.
RagStartupDegrades ==
    /\ startLast.op \in {"RAGSystem", "get_system_status", "test_connection"}
          => ~startLast.raised /\ startLast.ready \in BOOLEAN
    /\ (startLast.op = "RAGSystem" /\ ~startLast.backends.chroma) =>
          \/ query_engine = "mock" /\ index = MockSeeds /\ startLast.ready
          \/ query_engine = "none" /\ index = <<>> /\ ~startLast.ready

-----------------------------------------------------------------------------
(* Claims about failing queries (checked under SpecQuery) *)

\* C16: RAGSystem.query never raises, whatever the engine state; when the engine
\* is missing or a collaborator raised, the result has a response text, an empty
\* source list and an error indicator.
C16_QueryNeverRaises ==
    qLast.op = "query" =>
        /\ ~qLast.raised
        /\ (qLast.caught \/ query_engine = "none") =>
              /\ qLast.error
              /\ qLast.sources = <<>>
              /\ qLast.response.text # ""

\* C16 witness: a query against the in-memory index whose LLM call raised came
\* back as an error result.
C16_Witness ==
    /\ qLast.op = "query" /\ query_engine = "mock"
    /\ qLast.caught /\ qLast.calls.llm = 1
    /\ qLast.error /\ ~qLast.raised

\* C17: every failure result of RAGSystem.query carries a message written in the
\* requested language.
C17_FailureInRequestedLanguage ==
    (qLast.op = "query" /\ qLast.error) => qLast.response.lang = qLast.language

\* The messages of the except clause are in the requested language; the one of
\* a missing engine is English.
CaughtInRequestedLanguage ==
    /\ (qLast.op = "query" /\ qLast.caught) => qLast.response.lang = qLast.language
    /\ (qLast.op = "query" /\ qLast.error /\ ~qLast.caught) =>
          qLast.response = Msg("System not initialized", "en")

-----------------------------------------------------------------------------
(* Claims about document ids (checked under SpecIds) *)

\* C19: an unchanged source item, a file of the share or a URL, collected again
\* in the same process or in another one, gets the id it got before.
C19_IdStable == \A x \in SourceItems : Cardinality(idLog[x]) <= 1

\* The ids of files are stable, and so are those of pages within one process.
FileIdStable ==
    /\ \A f \in ShareUniverse : Cardinality(idLog[FileItem(f)]) <= 1
    /\ \A u \in CrawlUrls : \A seed \in HashSeeds :
          Cardinality({d \in idLog[UrlItem(u)] : d[2][2] = seed}) <= 1

-----------------------------------------------------------------------------
(* Claims about citations (checked under SpecUi) *)

\* C20: the sources process_query returns with an answer are exactly the items
\* put into the generation context, and never more than five.
C20_CitationsAreContext ==
    (pqLast.op = "process_query" /\ pqLast.sources # <<>>) =>
        /\ pqLast.sources = pqLast.context
        /\ Len(pqLast.sources) <= ContextSize

\* The context is the first five of the returned sources, or all of them.
ContextIsPrefix ==
    pqLast.op = "process_query" =>
        /\ Len(pqLast.context) = Min(ContextSize, Len(pqLast.sources))
        /\ pqLast.context = SubSeq(pqLast.sources, 1, Len(pqLast.context))
        /\ Len(pqLast.sources) <= 3 * (18 \div 3)

\* RAGSystem.query returns the retrieved nodes as sources, at most top-K of them
\* (under SpecQuery).
QuerySourcesAreRetrieved ==
    qLast.op = "query" =>
        /\ qLast.sources = qLast.nodes
        /\ Len(qLast.sources) <= SimilarityTopK

-----------------------------------------------------------------------------
(* Claims about what index_documents writes (checked under SpecIndex) *)

\* C21: the index never holds a document whose text is empty (text 0), whether
\* it came from a file of the share or from a web page.
C21_NoEmptyTextIndexed == \A i \in 1..Len(index) : index[i].text # 0

\* C21 witness: a second run read an empty cache file for a listed file without
\* an error, and inserted the other files but no document for that one.
C21_Witness ==
    /\ indexRuns = 2 /\ lastRun.ran /\ lastRun.clean /\ lastRun.unreadable = {}
    /\ \E p \in NasPaths :
          /\ cacheFiles[CacheKey(p)] = Some(0)
          /\ \A i \in 1..Len(RunEntries) : RunEntries[i].key # p
          /\ \E q \in NasPaths \ {p} : \E i \in 1..Len(RunEntries) : RunEntries[i].key = q

\* C23: index_documents always returns True or False. Without a query engine
\* it returns False and has touched neither the cache nor the index; it returns
\* True only if documents were collected, no step raised, and every collected
\* document has been inserted, each once.
C23_IndexSummary ==
    lastRun.ran =>
        /\ lastIndexResult \in {Some(TRUE), Some(FALSE)}
        /\ query_engine = "none" =>
              /\ lastIndexResult = Some(FALSE)
              /\ index = <<>>
              /\ \A k \in CacheKeys : cacheFiles[k] = None
        /\ lastIndexResult = Some(TRUE) =>
              /\ lastRun.clean
              /\ lastRun.expected # {}
              /\ Len(RunEntries) = Cardinality(lastRun.expected)
              /\ \A k \in lastRun.expected :
                    \E i \in 1..Len(RunEntries) : RunEntries[i].key = k
        /\ (~lastRun.clean \/ lastRun.expected = {}) => lastIndexResult = Some(FALSE)

\* C23 witness: a second run returned False because an insert raised, after a
\* first run that had inserted its documents.
C23_Witness ==
    /\ indexRuns = 2 /\ lastRun.ran /\ ~lastRun.clean
    /\ query_engine = "chroma"
    /\ lastRun.start > 1
    /\ lastRun.expected # {}
    /\ lastIndexResult = Some(FALSE)

-----------------------------------------------------------------------------
(* Claims about concurrent refreshes (checked under SpecRefresh) *)

\* What a run has written so far is the beginning of what it collected, and what
\* it collected is files in listing order followed by pages.
WrittenInOrder ==
    \A t \in Handlers :
        LET r == refresh[t]
        IN  /\ Len(r.written) <= Len(r.docs)
            /\ r.written = SubSeq(r.docs, 1, Len(r.written))
            /\ \A a, b \in 1..Len(r.docs) :
                  (a < b /\ r.docs[b] \in NasPaths) =>
                      /\ r.docs[a] \in NasPaths
                      /\ \E x, y \in 1..Len(NasListing) :
                            x < y /\ NasListing[x] = r.docs[a] /\ NasListing[y] = r.docs[b]

\* The writes of two runs for one document do not alternate.
NotInterleaved ==
    \A d \in DocKeys :
        \A a, b, c \in 1..Len(writeLog[d]) :
            (a < b /\ b < c /\ writeLog[d][a] = writeLog[d][c]) =>
                writeLog[d][b] = writeLog[d][a]

\* C22: a run writes its documents in the order collected, files in listing
\* order and then pages, and the writes of two runs for the same document are
\* never interleaved.
C22_OrderedAndSerialized == WrittenInOrder /\ NotInterleaved

\* C27: _verify_nas_access answers True only for a mount on which no file can
\* be created, and whatever it answers, no probe file is on the mount afterwards.
C27_ProbeLeavesNoTrace ==
    /\ (conn.constructed /\ conn.verified) => conn.mountAtInit = "readonly"
    /\ ~probe

\* C28: a get_file_content(p) call that returns content returns the content of
\* path p, whatever was asked for before.
C28_CacheReturnsOwnContent ==
    (fileLast.op = "get_file_content" /\ fileLast.content # None) =>
        fileLast.content = Some(MockContent(fileLast.path))

\* What is returned is the content of some path with the cache key of p.
ContentOfSameKey ==
    (fileLast.op = "get_file_content" /\ fileLast.content # None) =>
        \E q \in CallPaths :
            /\ CacheKey(q) = CacheKey(fileLast.path)
            /\ fileLast.content = Some(MockContent(q))

\* C29: the process constructs at most one RAGSystem, and every get_rag_system
\* call returns that one instance.
C29_SingleRagSystem ==
    /\ created <= 1
    /\ Cardinality(returnedSet) <= 1

\* It is so when __main__ of app.py made the first call, and the global never
\* goes back to None.
SingleAfterMain ==
    /\ launch = "main" => (created = 1 /\ returnedSet = {1} /\ ragGlobal = 1)
    /\ 0 \notin returnedSet
    /\ created <= Cardinality(GetThreads)

-----------------------------------------------------------------------------
(* Claims about the sessions of AuthManager (checked under SpecSession) *)

\* C25: is_authenticated('sso') is true only if complete_sso_authentication was
\* called with the token of the most recent authenticate_sso while that session
\* had not expired; a call without session, with another token or on an expired
\* session fails and leaves the sessions as they were.
C25_SsoProtocol ==
    /\ AmIsAuthenticated(auth_sessions, "sso", sessionClock).ok =>
          ssoIssued # 0 /\ completedFor = ssoIssued
    /\ sessionLast.op = "complete_sso_authentication" =>
          /\ sessionLast.success <=> sessionLast.valid
          /\ ~sessionLast.success => ~sessionLast.changed

\* C25 witness: after a call with the token of an earlier authenticate_sso had
\* failed, the call with the current token succeeded and 'sso' is authenticated.
C25_Witness ==
    /\ ssoIssued = 2 /\ completedFor = 2
    /\ sessionLast.op = "complete_sso_authentication" /\ sessionLast.success
    /\ AmIsAuthenticated(auth_sessions, "sso", sessionClock).ok

\* C26: a session whose expires_at has passed is not reported as authenticated
\* again, whatever is called, until authenticate_wiki or authenticate_sso makes
\* a new one.
C26_ExpiryIsFinal ==
    \A a \in lapsed : ~AmIsAuthenticated(auth_sessions, a, sessionClock).ok

-----------------------------------------------------------------------------
(* Claims about tokens and the web collector (checked under SpecAuth) *)

\* The pages of service s among the documents of a collection
PagesOf(pages, s) == SelectSeq(pages, LAMBDA d : d.key[1] = s)

\* C13: a service without a valid (stored, unexpired) token contributes no page
\* to get_all_content and the call does not raise, while every page of each
\* other service that has a valid token is returned.
C13_NoTokenNoPages ==
    authLast.op = "get_all_content" =>
        \A s \in {"wiki", "intern_fau"} :
            ~authLast.valid[s] =>
                /\ ~authLast.raised
                /\ PagesOf(authLast.pages, s) = <<>>
                /\ \A o \in {"wiki", "intern_fau"} \ {s} :
                      authLast.valid[o] =>
                          Len(PagesOf(authLast.pages, o)) =
                              Len(IF o = "wiki" THEN WikiPages ELSE InternPages)

\* What does hold: the same, whenever no stored expiry carries a UTC offset.
NoTokenNoPagesUnlessAware ==
    (authLast.op = "get_all_content" /\ ~authLast.raised) =>
        \A s \in {"wiki", "intern_fau"} :
            Len(PagesOf(authLast.pages, s)) =
                (IF authLast.valid[s] THEN Len(IF s = "wiki" THEN WikiPages ELSE InternPages)
                 ELSE 0)

\* C18: while the last store_token or clear_token on a service was a store_token
\* without expiry, get_token on that service returns exactly the token stored,
\* whatever was done to other services and however far the clock moved.
C18_TokenRoundTrip ==
    /\ \A s \in Services :
          stored[s] # None =>
              /\ ~GetToken(tokens, s, now).raised
              /\ GetToken(tokens, s, now).token = stored[s]
    /\ (authLast.op = "get_token" /\ authLast.expected # None) =>
          ~authLast.raised /\ authLast.token = authLast.expected

\* C18 witness: get_token on a service outside the two known ones returned the
\* empty token stored for it, with a token stored for the wiki as well and the
\* clock moved on.
C18_Witness ==
    /\ authLast.op = "get_token" /\ authLast.service = "other"
    /\ authLast.expected = Some("") /\ authLast.token = Some("")
    /\ stored["other"] = Some("")
    /\ tokens["wiki"] # None
    /\ now > 0

\* A read of service s finds no authentication and leaves no token behind.
ReadsFindNothing(s) ==
    /\ ~GetToken(tokens, s, now).raised
    /\ GetToken(tokens, s, now).token = None
    /\ GetToken(tokens, s, now).tokens[s] = None
    /\ ~IsAuthenticated(tokens, s, now).raised
    /\ ~IsAuthenticated(tokens, s, now).ok
    /\ ~GetSessionHeaders(tokens, s, now).raised
    /\ GetSessionHeaders(tokens, s, now).headers = {}

\* C24: when the expiry time of the stored token of a service has passed, and
\* for as long as no token is stored for it afterwards, get_token returns None
\* and removes the token, and is_authenticated and get_session_headers report
\* no authentication.
C24_ExpiredTokenGone ==
    \A s \in Services :
        (\/ tokens[s] = None
         \/ (tokens[s][1].expiry.kind \in {"time", "aware"} /\ now > tokens[s][1].expiry.at))
            => ReadsFindNothing(s)

\* The same for expiry times written without a UTC offset.
NaiveExpiredTokenGone ==
    \A s \in Services :
        (\/ tokens[s] = None
         \/ (tokens[s][1].expiry.kind = "time" /\ now > tokens[s][1].expiry.at))
            => ReadsFindNothing(s)

====
